---------------------------- MODULE Spec2Model ----------------------------
(***************************************************************************)
(* Model of the SLA bill checker engine (src/sla_logic.py) and of the      *)
(* handler that calls it (src/app.py).                                     *)
(*                                                                         *)
(* Units.  Python floats are modelled by exact integers in a fixed unit:   *)
(*   durations          seconds              (1 hour = 3600)               *)
(*   route lengths      metres               (1 km   = 1000)               *)
(*   currency inputs    paise                (1 Rs   = 100)                *)
(*   per-route charges  1/10000 Rs           (the code rounds them to 4dp) *)
(* NaN is the record field nan = TRUE.  The slab labels of the source use  *)
(* the characters U+2264 and U+2013; the model writes "<=" and "-".        *)
(***************************************************************************)
EXTENDS Integers, Sequences, FiniteSets, TLC

VARIABLES
    annex_a,    \* dataset A as it lies on disk / in the upload widget, or NoFile
    annex_c,    \* dataset C, or NoFile
    args,       \* the form values / the arguments of the process_sla call
    now,        \* datetime.now(), as (year, month)
    pc,         \* where the run stands
    ui,         \* the message st.error showed, "" when none
    error,      \* the exception process_sla raised, NoError when none
    reads,      \* the datasets read so far, in order
    routes,     \* the registry frame built from dataset A (lines 268-282)
    total_hours_month,  \* hours of the billing month, 0 before it is known
    res,        \* what the computation produced (lines 321-446)
    written,    \* the output artifacts written so far, in order
    first,      \* what an earlier call of process_sla was given and made
    mttr_in,    \* the durations handed to mttr_penalty_non_cumulative
    mttr_out    \* the results returned so far, in the order of mttr_in

world == <<annex_a, annex_c, args, now>>
run == <<pc, ui, error, reads, routes, total_hours_month, res, written>>
harness == <<mttr_in, mttr_out>>
vars == <<world, run, harness, first>>

(***************************************************************************)
(* Numbers                                                                 *)
(***************************************************************************)
SecPerHour == 3600

Max(a, b) == IF a >= b THEN a ELSE b
Min(a, b) == IF a <= b THEN a ELSE b

\* floor and ceiling of n / d for d > 0 and any integer n (\div floors).
FloorDiv(n, d) == n \div d
CeilDiv(n, d) == -((-n) \div d)

\* a duration in hours, held in seconds; NaN is nan = TRUE
NaN == [nan |-> TRUE, secs |-> 0]
Hours(s) == [nan |-> FALSE, secs |-> s]

(***************************************************************************)
(* Text.  A Python str is a sequence of one-character strings; the three   *)
(* non-ASCII characters the code names are the elements "nbsp" (U+00A0),   *)
(* "ndash" (U+2013) and "mdash" (U+2014).  A blank spreadsheet cell (NaN)  *)
(* is the record NaNCell, any other cell is the text str() gives for it.   *)
(***************************************************************************)
NaNCell == [nan |-> TRUE, text |-> <<>>]
Cell(t) == [nan |-> FALSE, text |-> t]

UpperCase == <<"A","B","C","D","E","F","G","H","I","J","K","L","M",
               "N","O","P","Q","R","S","T","U","V","W","X","Y","Z">>
LowerCase == <<"a","b","c","d","e","f","g","h","i","j","k","l","m",
               "n","o","p","q","r","s","t","u","v","w","x","y","z">>
Digits == <<"0","1","2","3","4","5","6","7","8","9">>

IsDigit(c) == \E i \in 1..Len(Digits) : Digits[i] = c
DigitVal(c) == (CHOOSE i \in 1..Len(Digits) : Digits[i] = c) - 1
\* what str.isspace() and the regex class \s accept, among the model's characters
IsSpace(c) == c \in {" ", "nbsp"}

LowerChar(c) ==
    IF \E i \in 1..26 : UpperCase[i] = c
    THEN LowerCase[CHOOSE i \in 1..26 : UpperCase[i] = c] ELSE c
UpperChar(c) ==
    IF \E i \in 1..26 : LowerCase[i] = c
    THEN UpperCase[CHOOSE i \in 1..26 : LowerCase[i] = c] ELSE c

\* str.lower(), str.upper()
Lower(t) == [i \in 1..Len(t) |-> LowerChar(t[i])]
Upper(t) == [i \in 1..Len(t) |-> UpperChar(t[i])]

\* str.strip(): leading and trailing whitespace removed
RECURSIVE LStrip(_)
LStrip(t) == IF t # <<>> /\ IsSpace(Head(t)) THEN LStrip(Tail(t)) ELSE t
RECURSIVE RStrip(_)
RStrip(t) ==
    IF t # <<>> /\ IsSpace(t[Len(t)]) THEN RStrip(SubSeq(t, 1, Len(t) - 1)) ELSE t
Strip(t) == RStrip(LStrip(t))

\* sub in t
Contains(t, sub) ==
    \E i \in 1..(Len(t) - Len(sub) + 1) : SubSeq(t, i, i + Len(sub) - 1) = sub

\* str.replace(old, new) for a single character old
ReplaceChar(t, old, new) == [i \in 1..Len(t) |-> IF t[i] = old THEN new ELSE t[i]]

\* re.sub(r"\s+", " ", t): every run of whitespace becomes one space
RECURSIVE CollapseSpaces(_)
CollapseSpaces(t) ==
    IF t = <<>> THEN <<>>
    ELSE IF IsSpace(Head(t))
         THEN <<" ">> \o CollapseSpaces(LStrip(t))
         ELSE <<Head(t)>> \o CollapseSpaces(Tail(t))

\* re.sub(r"\s*-\s*", "-", t): whitespace around a hyphen is removed
RECURSIVE TightenHyphens(_)
TightenHyphens(t) ==
    IF t = <<>> THEN <<>>
    ELSE IF LStrip(t) # <<>> /\ Head(LStrip(t)) = "-"
         THEN <<"-">> \o TightenHyphens(LStrip(Tail(LStrip(t))))
         ELSE <<Head(t)>> \o TightenHyphens(Tail(t))

norm_route_name(s) ==
    IF s.nan THEN <<>>
    ELSE LET t0 == Lower(Strip(s.text))
             t1 == ReplaceChar(t0, "nbsp", " ")
             t2 == ReplaceChar(ReplaceChar(t1, "ndash", "-"), "mdash", "-")
             t3 == CollapseSpaces(t2)
             t4 == TightenHyphens(t3)
         IN  Strip(t4)

\* astype(str).str.strip().str.replace(r"\.0$", "", regex=True); astype(str)
\* turns a blank cell into the text "nan"
clean_route_id(c) ==
    LET t == IF c.nan THEN <<"n", "a", "n">> ELSE Strip(c.text)
        n == Len(t)
    IN  IF n >= 2 /\ t[n - 1] = "." /\ t[n] = "0" THEN SubSeq(t, 1, n - 2) ELSE t

\* astype(str) of a name cell
str_of_cell(c) == IF c.nan THEN <<"n", "a", "n">> ELSE c.text

(***************************************************************************)
(* parse_duration_to_hours.  The result is in seconds.  float(s) is        *)
(* modelled on the texts  [+-] digits [ . digit [digit] ]  (at most two    *)
(* decimals, so that the value is a whole number of seconds); the cells    *)
(* the model draws are either of that form or texts float() rejects.       *)
(* A pd.Timedelta cell is not drawn.                                       *)
(***************************************************************************)
AllDigits(t) == \A i \in 1..Len(t) : IsDigit(t[i])

\* int(t) for a text of digits
RECURSIVE IntOf(_)
IntOf(t) == IF t = <<>> THEN 0 ELSE 10 * IntOf(SubSeq(t, 1, Len(t) - 1)) + DigitVal(t[Len(t)])

\* the positions of ":" in t
Colons(t) == { i \in 1..Len(t) : t[i] = ":" }

\* re.match(r"^\d{1,4}:\d{2}(:\d{2})?$", s)
MatchesClock(s) ==
    LET c == Colons(s) IN
    /\ c # {}
    /\ LET i == CHOOSE x \in c : \A y \in c : x <= y
           hh == SubSeq(s, 1, i - 1)
           rest == SubSeq(s, i + 1, Len(s))
       IN  /\ Len(hh) >= 1 /\ Len(hh) <= 4 /\ AllDigits(hh)
           /\ \/ Len(rest) = 2 /\ AllDigits(rest)
              \/ /\ Len(rest) = 5 /\ rest[3] = ":"
                 /\ AllDigits(SubSeq(rest, 1, 2)) /\ AllDigits(SubSeq(rest, 4, 5))

\* h + m / 60.0 + sec / 3600.0, in seconds
ClockSeconds(s) ==
    LET i == CHOOSE x \in Colons(s) : \A y \in Colons(s) : x <= y
        h == IntOf(SubSeq(s, 1, i - 1))
        m == IntOf(SubSeq(s, i + 1, i + 2))
        sec == IF Len(s) = i + 5 THEN IntOf(SubSeq(s, i + 4, i + 5)) ELSE 0
    IN  h * SecPerHour + m * 60 + sec

\* float(s) accepts the text (within the texts the model draws)
IsDecimal(s) ==
    LET u == IF s # <<>> /\ Head(s) \in {"+", "-"} THEN Tail(s) ELSE s
        dots == { i \in 1..Len(u) : u[i] = "." }
    IN  \/ u # <<>> /\ AllDigits(u)
        \/ /\ Cardinality(dots) = 1
           /\ LET i == CHOOSE x \in dots : TRUE IN
              /\ i >= 2 /\ AllDigits(SubSeq(u, 1, i - 1))
              /\ Len(u) - i \in {1, 2} /\ AllDigits(SubSeq(u, i + 1, Len(u)))

\* float(s), in seconds
DecimalSeconds(s) ==
    LET neg == s # <<>> /\ Head(s) = "-"
        u == IF s # <<>> /\ Head(s) \in {"+", "-"} THEN Tail(s) ELSE s
        dots == { i \in 1..Len(u) : u[i] = "." }
        i == IF dots = {} THEN Len(u) + 1 ELSE CHOOSE x \in dots : TRUE
        whole == IntOf(SubSeq(u, 1, i - 1))
        frac == SubSeq(u, i + 1, Len(u))
        hundredths == IF Len(frac) = 1 THEN 10 * IntOf(frac) ELSE IntOf(frac)
        v == whole * SecPerHour + hundredths * (SecPerHour \div 100)
    IN  IF neg THEN -v ELSE v

parse_duration_to_hours(val) ==
    IF val.nan THEN NaN
    ELSE LET s == Strip(val.text) IN
         IF s = <<>> THEN NaN
         ELSE IF MatchesClock(s) THEN Hours(ClockSeconds(s))
         ELSE IF IsDecimal(s) THEN Hours(DecimalSeconds(s))
         ELSE NaN

(***************************************************************************)
(* robust_yes                                                              *)
(***************************************************************************)
\* robust_yes without its two substring rules
robust_yes_exact_words(val) ==
    IF val.nan THEN FALSE
    ELSE Upper(Strip(val.text)) \in { <<"Y","E","S">>, <<"Y">>, <<"1">>, <<"T","R","U","E">> }

robust_yes(val) ==
    IF val.nan THEN FALSE
    ELSE LET s == Upper(Strip(val.text)) IN
         IF s = <<>> THEN FALSE
         ELSE IF s \in { <<"N","O">>, <<"N">>, <<"0">>, <<"F","A","L","S","E">> } THEN FALSE
         ELSE IF s \in { <<"Y","E","S">>, <<"Y">>, <<"1">>, <<"T","R","U","E">> } THEN TRUE
         ELSE IF Contains(s, <<"Y","E","S">>) THEN TRUE
         ELSE IF Contains(s, <<"E","X","E","M","P","T">>) THEN TRUE
         ELSE FALSE

(***************************************************************************)
(* Rounding.  round(x, n) and Series.round(n) round to the nearest multiple *)
(* of 10^-n; the model rounds the exact value, a tie going to the even      *)
(* neighbour (what Python does when the float holds the tie exactly).       *)
(* RoundDiv(n, d) is n / d rounded to an integer, d > 0.                    *)
(***************************************************************************)
RoundDiv(n, d) ==
    LET q == FloorDiv(n, d)
        r == n - q * d
    IN  IF 2 * r < d THEN q
        ELSE IF 2 * r > d THEN q + 1
        ELSE IF q % 2 = 0 THEN q ELSE q + 1

\* a * b / d rounded like RoundDiv, computed without forming a * b
MulRoundDiv(a, b, d) ==
    LET q == FloorDiv(a, d)
        r == a - q * d
        whole == q * b + FloorDiv(r * b, d)
        rem == (r * b) % d
    IN  IF 2 * rem < d THEN whole
        ELSE IF 2 * rem > d THEN whole + 1
        ELSE IF whole % 2 = 0 THEN whole ELSE whole + 1

(***************************************************************************)
(* uptime_deduction_pct.  An uptime percentage is the fraction num / den,  *)
(* den > 0; the comparisons are made exactly.  (In floating point a        *)
(* downtime whose decimal text is inexact in binary can fall on the other  *)
(* side of a threshold it meets exactly, e.g. 7.44 h of 744 h.)            *)
(***************************************************************************)
\* a variant with the last band's comparison strict
uptime_deduction_pct_strict_95(num, den) ==
    IF num >= 99 * den THEN 0
    ELSE IF num >= 98 * den THEN 10
    ELSE IF num >= 97 * den THEN 25
    ELSE IF num >= 96 * den THEN 50
    ELSE IF num > 95 * den THEN 75
    ELSE 100

uptime_deduction_pct(num, den) ==
    IF num >= 99 * den THEN 0
    ELSE IF num >= 98 * den THEN 10
    ELSE IF num >= 97 * den THEN 25
    ELSE IF num >= 96 * den THEN 50
    ELSE IF num >= 95 * den THEN 75
    ELSE 100

(***************************************************************************)
(* mttr_penalty_non_cumulative                                             *)
(***************************************************************************)
\* math.ceil(float(duration_hours)) replaced by truncation
CeilHoursTruncating(secs) == FloorDiv(secs, SecPerHour)

\* h = int(math.ceil(float(duration_hours)))
CeilHours(secs) == CeilDiv(secs, SecPerHour)

\* the >48 branch without its 5000 base
mttr_penalty_beyond_48_without_base(h) ==
    LET extra_days == CeilDiv(h - 48, 24) IN 500 * extra_days

\* extra_days = int(math.ceil((h - 48) / 24)); 5000 + 500 * extra_days
mttr_penalty_beyond_48(h) ==
    LET extra_days == CeilDiv(h - 48, 24) IN 5000 + 500 * extra_days

mttr_penalty_non_cumulative(duration_hours) ==
    IF duration_hours.nan \/ duration_hours.secs <= 0
    THEN [pen |-> 0, slab |-> "Invalid/Blank"]
    ELSE LET h == CeilHours(duration_hours.secs) IN
         IF h <= 4 THEN [pen |-> 0, slab |-> "<=4"]
         ELSE IF h <= 6 THEN [pen |-> 500, slab |-> ">4-6"]
         ELSE IF h <= 24 THEN [pen |-> 500 + 100 * (h - 6), slab |-> ">6-24"]
         ELSE IF h <= 48 THEN [pen |-> 5000, slab |-> ">24-48"]
         ELSE [pen |-> mttr_penalty_beyond_48(h), slab |-> ">48"]

(***************************************************************************)
(* Dataset A and the registry (process_sla, lines 255-308)                 *)
(***************************************************************************)
NoFile == [exists |-> FALSE]

\* a Month cell: blank, or a Timestamp with its year and month
NoMonth == [nan |-> TRUE, year |-> 0, month |-> 0]
Timestamp(y, m) == [nan |-> FALSE, year |-> y, month |-> m]

\* a numeric cell of the RKM column, in metres; NaN is what to_numeric's
\* errors="coerce" makes of a blank or a text
NoNumber == [nan |-> TRUE, m |-> 0]
Metres(n) == [nan |-> FALSE, m |-> n]

\* a Month cell holding a text
MonthText(t) == [nan |-> FALSE, year |-> 0, month |-> 0, text |-> t]

\* the character at place k of s, "" past its ends
At(s, k) == IF k \in 1..Len(s) THEN s[k] ELSE ""

\* re.search(r"(\d{4})-(\d{1,2})-(\d{1,2})", s) at place i: the number of
\* digits group 2 takes, 0 when there is no match at i
IsoMonthDigits(s, i) ==
    IF ~(/\ \A k \in i..(i + 3) : IsDigit(At(s, k))
         /\ At(s, i + 4) = "-") THEN 0
    ELSE IF IsDigit(At(s, i + 5)) /\ IsDigit(At(s, i + 6)) /\ At(s, i + 7) = "-"
            /\ IsDigit(At(s, i + 8)) THEN 2
    ELSE IF IsDigit(At(s, i + 5)) /\ At(s, i + 6) = "-" /\ IsDigit(At(s, i + 7)) THEN 1
    ELSE 0

\* the keys of mon_map, in the order of their values
MonthNames == <<<<"j","a","n">>, <<"f","e","b">>, <<"m","a","r">>, <<"a","p","r">>, <<"m","a","y">>, <<"j","u","n">>, <<"j","u","l">>, <<"a","u","g">>, <<"s","e","p">>, <<"o","c","t">>, <<"n","o","v">>, <<"d","e","c">>>>

NoYearMonth == [none |-> TRUE, year |-> 0, month |-> 0]

\* lines 218-232: the branch for a text
parse_month_year_from_text(text) ==
    LET s == Strip(text)
        iso == { i \in 1..Len(s) : IsoMonthDigits(s, i) > 0 }
        low == Lower(s)
        named == { i \in 1..(Len(s) - 2) : \E n \in 1..12 : SubSeq(low, i, i + 2) = MonthNames[n] }
        y20 == { i \in 1..Len(s) :
                   /\ At(s, i) = "2" /\ At(s, i + 1) = "0"
                   /\ IsDigit(At(s, i + 2)) /\ IsDigit(At(s, i + 3)) }
    IN  IF s = <<>> THEN NoYearMonth
        ELSE IF iso # {}
        THEN LET i == CHOOSE k \in iso : \A j \in iso : k <= j IN
             [ none |-> FALSE,
               year |-> IntOf(SubSeq(s, i, i + 3)),
               month |-> IntOf(SubSeq(s, i + 5, i + 4 + IsoMonthDigits(s, i))) ]
        ELSE IF named # {} /\ y20 # {}
        THEN LET i == CHOOSE k \in named : \A j \in named : k <= j
                 y == CHOOSE k \in y20 : \A j \in y20 : k <= j
             IN  [ none |-> FALSE,
                   year |-> IntOf(SubSeq(s, y, y + 3)),
                   month |-> CHOOSE n \in 1..12 : SubSeq(low, i, i + 2) = MonthNames[n] ]
        ELSE NoYearMonth

\* parse_month_year_from_value: a blank cell (NaN), a Timestamp, a text
parse_month_year_from_value(val) ==
    IF val.nan THEN NoYearMonth
    ELSE IF "text" \in DOMAIN val THEN parse_month_year_from_text(val.text)
    ELSE [none |-> FALSE, year |-> val.year, month |-> val.month]

IsLeap(y) == (y % 4 = 0 /\ y % 100 # 0) \/ y % 400 = 0

\* calendar.monthrange(year, month)[1]
DaysInMonth(y, m) ==
    IF m = 2 THEN (IF IsLeap(y) THEN 29 ELSE 28)
    ELSE IF m \in {4, 6, 9, 11} THEN 30 ELSE 31

\* a variant that reads the current date whatever the Month cell holds
BillingMonthFromClock(rows, clock) ==
    [year |-> clock.year, month |-> clock.month]

\* lines 288-292: the first row's Month, else the current date
BillingMonth(rows, clock) ==
    LET sla_month_raw == IF Len(rows) > 0 THEN rows[1].Month ELSE MonthText(<<>>)
        ym == parse_month_year_from_value(sla_month_raw)
    IN  IF ym.none THEN [year |-> clock.year, month |-> clock.month]
        ELSE [year |-> ym.year, month |-> ym.month]

\* lines 294-295: calendar.monthrange(year, month)[1] * 24, for a month 1..12
HoursOfBillingMonth(rows, clock) ==
    LET ym == BillingMonth(rows, clock) IN DaysInMonth(ym.year, ym.month) * 24

\* (Route_KM * rate_per_km).round(4), in 1/10000 Rs; km in metres, rate in paise
SlaCharge(km_m, rate_paise) == RoundDiv(km_m * rate_paise, 10)

\* lines 268-282: one registry row per row of dataset A
RegistryRow(r, rate_per_km) ==
    LET km == IF r.RKM.nan THEN 0 ELSE r.RKM.m IN
    [ Route_ID        |-> clean_route_id(r.Route_ID),
      Route_Name      |-> r.Route_Name,
      Route_Name_norm |-> norm_route_name(r.Route_Name),
      Route_KM        |-> km,
      SLA_Charges_Rs  |-> SlaCharge(km, rate_per_km) ]

Registry(rows, rate_per_km) == [i \in 1..Len(rows) |-> RegistryRow(rows[i], rate_per_km)]

\* lines 305-308
route_ids_in_a(reg) == { reg[i].Route_ID : i \in 1..Len(reg) }
route_names_in_a(reg) == { reg[i].Route_Name_norm : i \in 1..Len(reg) }

\* routes.set_index("Route_Name_norm")["Route_ID"].to_dict(): of two rows with
\* the same key the later one stays
name_to_id(reg, name) ==
    LET last == CHOOSE i \in 1..Len(reg) :
                    /\ reg[i].Route_Name_norm = name
                    /\ \A j \in 1..Len(reg) : reg[j].Route_Name_norm = name => j <= i
    IN  reg[last].Route_ID

(***************************************************************************)
(* Headers.  A column header is a text; the header row of a dataset is the *)
(* sequence of its headers as the file holds them.  A row of dataset C     *)
(* holds the cells of the four columns the engine reads: Route_ID and      *)
(* Route_Name (the two required columns), Duration (the column             *)
(* detect_fault_duration_column returns) and Exempt (the column            *)
(* find_exemption_column returns, if any).                                 *)
(***************************************************************************)
H_FORMAT == <<"F","O","R","M","A","T">>
H_BA == <<"B","A">>
H_OA == <<"O","A">>
H_Month == <<"M","o","n","t","h">>
H_SrNo == <<"S","r",".","N","o",".">>
\* "Transnet Route ID"
H_RouteId == <<"T","r","a","n","s","n","e","t"," ","R","o","u","t","e"," ","I","D">>
\* "Working Route Name as per Transnet"
H_RouteName == <<"W","o","r","k","i","n","g"," ","R","o","u","t","e"," ","N","a","m","e"," ","a","s"," ","p","e","r"," ","T","r","a","n","s","n","e","t">>
H_RKM == <<"R","K","M">>
\* "Name of Maintenance Agency"
H_Agency == <<"N","a","m","e"," ","o","f"," ","M","a","i","n","t","e","n","a","n","c","e"," ","A","g","e","n","c","y">>

\* lines 259-263
required_a ==
    <<H_FORMAT, H_BA, H_OA, H_Month, H_SrNo, H_RouteId, H_RouteName, H_RKM, H_Agency>>

\* line 314
must_have_c == <<H_RouteId, H_RouteName>>

\* lines 257 and 312: [str(c).strip() for c in columns]
StripColumns(columns) == [i \in 1..Len(columns) |-> Strip(columns[i])]

\* only the first of the required columns that are not there
FirstMissingColumn(required, columns) ==
    LET missing == SelectSeq(required, LAMBDA c : \A i \in 1..Len(columns) : columns[i] # c)
    IN  IF missing = <<>> THEN <<>> ELSE <<missing[1]>>

\* lines 264 and 315: [c for c in required if c not in columns]
MissingColumns(required, columns) ==
    SelectSeq(required, LAMBDA c : \A i \in 1..Len(columns) : columns[i] # c)

NoColumn == 0

\* a variant that takes the last column where the code raises
detect_fault_duration_column_or_last(cols) ==
    LET named == { i \in 1..Len(cols) :
                     /\ Contains(Lower(cols[i]), <<"f","a","u","l","t">>)
                     /\ Contains(Lower(cols[i]), <<"d","u","r","a","t","i","o","n">>) }
    IN  IF named # {} THEN CHOOSE i \in named : \A j \in named : i <= j
        ELSE IF Len(cols) >= 14 THEN 14
        ELSE Len(cols)

\* the place of the column in the header row, NoColumn when the code raises
detect_fault_duration_column(cols) ==
    LET named == { i \in 1..Len(cols) :
                     /\ Contains(Lower(cols[i]), <<"f","a","u","l","t">>)
                     /\ Contains(Lower(cols[i]), <<"d","u","r","a","t","i","o","n">>) }
    IN  IF named # {} THEN CHOOSE i \in named : \A j \in named : i <= j
        ELSE IF Len(cols) >= 14 THEN 14
        ELSE NoColumn

\* the place of the column in the header row, NoColumn for None
find_exemption_column(columns) ==
    LET norm(i) == Lower(Strip(columns[i]))
        by_exempt == { i \in 1..Len(columns) :
                         Contains(norm(i), <<"e","x","e","m","p","t">>) \/ Contains(norm(i), <<"e","x","e","m","p","t","i","o","n">>) }
        by_yes_no == { i \in 1..Len(columns) :
                     /\ \/ Contains(norm(i), <<"m","t","t","r">>) /\ Contains(norm(i), <<"p","e","n","a","l","t","y">>)
                        \/ Contains(norm(i), <<"a","v","b","i","l","i","t","y">>)
                        \/ Contains(norm(i), <<"a","v","a","i","l","a","b","i","l","i","t","y">>)
                     /\ \/ Contains(norm(i), <<"y","e","s">>) \/ Contains(norm(i), <<"n","o">>)
                        \/ Contains(norm(i), <<"y","/","n">>) \/ Contains(norm(i), <<"y","e","s","/","n","o">>) }
    IN  IF by_exempt # {} THEN CHOOSE i \in by_exempt : \A j \in by_exempt : i <= j
        ELSE IF by_yes_no # {} THEN CHOOSE i \in by_yes_no : \A j \in by_yes_no : i <= j
        ELSE NoColumn

\* what process_sla raises
NoError == [type |-> "", message |-> "", columns |-> <<>>]
FileNotFoundError == [type |-> "FileNotFoundError", message |-> "", columns |-> <<>>]
ValueError(message, columns) == [type |-> "ValueError", message |-> message, columns |-> columns]
IllegalMonthError == [type |-> "IllegalMonthError", message |-> "", columns |-> <<>>]

(***************************************************************************)
(* Dataset C, reconciliation and the penalties (process_sla, lines 321-446) *)
(* Money is held in paise, except SLA_Charges_Rs (1/10000 Rs).             *)
(***************************************************************************)
RECURSIVE SumF(_, _)
\* the sum of f[x] over x in S
SumF(f, S) ==
    IF S = {} THEN 0
    ELSE LET x == CHOOSE y \in S : TRUE IN f[x] + SumF(f, S \ {x})

NoId == [nan |-> TRUE, id |-> <<>>]
SomeId(t) == [nan |-> FALSE, id |-> t]

\* lines 321-328: the columns added to one row of dataset C; row is its index
FaultRow(c, row, exempt_col) ==
    [ row             |-> row,
      Route_ID_raw    |-> clean_route_id(c.Route_ID),
      Route_Name_raw  |-> str_of_cell(c.Route_Name),
      Route_Name_norm |-> norm_route_name(Cell(str_of_cell(c.Route_Name))),
      Is_Exempt       |-> IF exempt_col THEN robust_yes(c.Exempt) ELSE FALSE,
      Duration_Hrs    |-> parse_duration_to_hours(c.Duration) ]

\* line 326: the exemption column is looked for among the stripped headers
\* and the three columns lines 322-324 added, none of which it takes
Faults(file) ==
    LET exempt_col == find_exemption_column(StripColumns(file.columns)) # NoColumn
    IN  [i \in 1..Len(file.rows) |-> FaultRow(file.rows[i], i, exempt_col)]

\* the mask of lines 330-331 with >= in place of >
ValidDurationOrZero(f) == ~f.Duration_Hrs.nan /\ f.Duration_Hrs.secs >= 0

\* the mask of lines 330-331: Duration_Hrs.notna() & (Duration_Hrs > 0)
ValidDuration(f) == ~f.Duration_Hrs.nan /\ f.Duration_Hrs.secs > 0

\* a variant that lets the name win over the id
RouteIdFinalNameFirst(f, reg) ==
    LET by_id == IF f.Route_ID_raw \in route_ids_in_a(reg)
                 THEN SomeId(f.Route_ID_raw) ELSE NoId
        by_name == IF f.Route_Name_norm \in route_names_in_a(reg)
                   THEN SomeId(name_to_id(reg, f.Route_Name_norm)) ELSE NoId
    IN  [ by_id |-> by_id, by_name |-> by_name,
          final |-> IF ~by_name.nan THEN by_name.id
                    ELSE IF ~by_id.nan THEN by_id.id ELSE f.Route_ID_raw ]

\* lines 334-341: Route_ID_mapped_by_id, Route_ID_mapped_by_name, Route_ID_Final
RouteIdFinal(f, reg) ==
    LET by_id == IF f.Route_ID_raw \in route_ids_in_a(reg)
                 THEN SomeId(f.Route_ID_raw) ELSE NoId
        by_name == IF f.Route_Name_norm \in route_names_in_a(reg)
                   THEN SomeId(name_to_id(reg, f.Route_Name_norm)) ELSE NoId
    IN  [ by_id |-> by_id, by_name |-> by_name,
          final |-> IF ~by_id.nan THEN by_id.id
                    ELSE IF ~by_name.nan THEN by_name.id ELSE f.Route_ID_raw ]

\* a variant that leaves the exempted share in the net column
NetPenaltyIgnoringExemption(tender, exempted) == tender

\* line 356: MTTR_Penalty_Net_Rs
NetPenalty(tender, exempted) == tender - exempted

\* lines 334-356: the columns added to one valid fault
ValidFaultRow(f, reg) ==
    LET m == RouteIdFinal(f, reg)
        p == mttr_penalty_non_cumulative(f.Duration_Hrs)
        tender == 100 * p.pen
        exempted == IF f.Is_Exempt THEN tender ELSE 0
    IN  [ row             |-> f.row,
          Route_ID_raw    |-> f.Route_ID_raw,
          Route_Name_raw  |-> f.Route_Name_raw,
          Route_Name_norm |-> f.Route_Name_norm,
          Is_Exempt       |-> f.Is_Exempt,
          Duration_Hrs    |-> f.Duration_Hrs.secs,
          Route_ID_Final  |-> m.final,
          Matched_By_Name |-> IF m.by_id.nan /\ ~m.by_name.nan THEN "YES" ELSE "NO",
          MTTR_Penalty_Tender_Rs   |-> tender,
          MTTR_Slab                |-> p.slab,
          MTTR_Penalty_Exempted_Rs |-> exempted,
          MTTR_Penalty_Net_Rs      |-> NetPenalty(tender, exempted) ]

SLAB_ORDER == <<"<=4", ">4-6", ">6-24", ">24-48", ">48">>

\* lines 359-373: one row per slab of SLAB_ORDER, 0 where no fault fell
SlabSummary(fv) ==
    [ k \in 1..Len(SLAB_ORDER) |->
        LET in == { i \in 1..Len(fv) : fv[i].MTTR_Slab = SLAB_ORDER[k] } IN
        [ MTTR_Slab        |-> SLAB_ORDER[k],
          Count            |-> Cardinality(in),
          Penalty_Gross    |-> SumF([i \in 1..Len(fv) |-> fv[i].MTTR_Penalty_Tender_Rs], in),
          Penalty_Exempted |-> SumF([i \in 1..Len(fv) |-> fv[i].MTTR_Penalty_Exempted_Rs], in),
          Penalty_Net      |-> SumF([i \in 1..Len(fv) |-> fv[i].MTTR_Penalty_Net_Rs], in) ] ]

\* lines 381-386: the summed Duration_Hrs (seconds) of the valid faults whose
\* Route_ID_Final is id; net leaves the exempt ones out
Downtime(fv, id, net) ==
    SumF([i \in 1..Len(fv) |-> fv[i].Duration_Hrs],
         { i \in 1..Len(fv) : fv[i].Route_ID_Final = id /\ (net => ~fv[i].Is_Exempt) })

\* lines 393-396: ((total_hours_month - downtime) / total_hours_month) * 100,
\* clipped to [0, 100]; the fraction num / den
UptimePct(hours_month, downtime_secs) ==
    LET den == hours_month * SecPerHour IN
    [num |-> Max(0, Min(100 * den, 100 * (den - downtime_secs))), den |-> den]

\* lines 401-402: (SLA_Charges_Rs * pct / 100.0).round(2), in paise
DeductionRs(charge, pct) == MulRoundDiv(charge, pct, 10000)

\* lines 388-405: the availability row of one registry route
AvailRow(r, fv, hours_month) ==
    LET total == Downtime(fv, r.Route_ID, FALSE)
        net == Downtime(fv, r.Route_ID, TRUE)
        up_gross == UptimePct(hours_month, total)
        up_net == UptimePct(hours_month, net)
        pct_gross == uptime_deduction_pct(up_gross.num, up_gross.den)
        pct_net == uptime_deduction_pct(up_net.num, up_net.den)
    IN  [ Route_ID            |-> r.Route_ID,
          SLA_Charges_Rs      |-> r.SLA_Charges_Rs,
          Downtime_Hrs_Total  |-> total,
          Downtime_Hrs_Net    |-> net,
          Uptime_pct_Gross    |-> up_gross,
          Uptime_pct_Net      |-> up_net,
          Deduction_pct_Gross |-> pct_gross,
          Deduction_pct_Net   |-> pct_net,
          Deduction_Rs_Gross  |-> DeductionRs(r.SLA_Charges_Rs, pct_gross),
          Deduction_Rs_Net    |-> DeductionRs(r.SLA_Charges_Rs, pct_net),
          Availability_Deduction_Net_Rs |-> DeductionRs(r.SLA_Charges_Rs, pct_net) ]

Avail(reg, fv, hours_month) == [i \in 1..Len(reg) |-> AvailRow(reg[i], fv, hours_month)]

\* line 410 with the test of the name alone
MissingRowsByNameAlone(fv, reg) ==
    { fv[i].row : i \in { j \in 1..Len(fv) :
        fv[j].Route_Name_norm \notin route_names_in_a(reg) } }

\* line 410: the rows the notes call missing
MissingRows(fv, reg) ==
    { fv[i].row : i \in { j \in 1..Len(fv) :
        /\ fv[j].Route_ID_Final \notin route_ids_in_a(reg)
        /\ fv[j].Route_Name_norm \notin route_names_in_a(reg) } }

\* lines 381-382: downtime_all, one row per Route_ID_Final of the valid faults
DowntimeAll(fv) ==
    { [ Route_ID |-> id, Downtime_Hrs_Total |-> Downtime(fv, id, FALSE) ] :
        id \in { fv[i].Route_ID_Final : i \in 1..Len(fv) } }

\* lines 412-420: the missing rows grouped by raw id and raw name, the
\* largest summed downtime first
MissingGroup(fv, reg) ==
    LET rows == { j \in 1..Len(fv) : fv[j].row \in MissingRows(fv, reg) }
        keys == { <<fv[j].Route_ID_raw, fv[j].Route_Name_raw>> : j \in rows }
        groups == { [ Route_ID_in_C      |-> k[1],
                      Route_Name_in_C    |-> k[2],
                      Total_Downtime_Hrs |->
                          SumF([j \in 1..Len(fv) |-> fv[j].Duration_Hrs],
                               { j \in rows : <<fv[j].Route_ID_raw, fv[j].Route_Name_raw>> = k }) ] :
                    k \in keys }
    IN  CHOOSE q \in [1..Cardinality(groups) -> groups] :
            /\ \A i, j \in DOMAIN q : i # j => q[i] # q[j]
            /\ \A i, j \in DOMAIN q : i < j => q[i].Total_Downtime_Hrs >= q[j].Total_Downtime_Hrs

\* a cap of 25% that is never applied
CapNeverApplied(mttr_net, cap) ==
    [mttr_net_after_cap |-> mttr_net, mttr_cap_applied |-> "NO"]

\* lines 433-438
Cap(mttr_net, cap) ==
    IF mttr_net > cap
    THEN [mttr_net_after_cap |-> cap, mttr_cap_applied |-> "YES"]
    ELSE [mttr_net_after_cap |-> mttr_net, mttr_cap_applied |-> "NO"]

\* the two penalties added up
HigherOfAsSum(system, field) == system + field

\* line 443
HigherOf(system, field) == Max(system, field)

\* line 446
SlaRecovery(higher_of_penalty, vendor_deducted_penalty) ==
    Max(higher_of_penalty - vendor_deducted_penalty, 0)

\* lines 321-446
Compute(reg, file, hours_month, a) ==
    LET faults == Faults(file)
        faults_valid == SelectSeq(faults, ValidDuration)
        faults_invalid == SelectSeq(faults, LAMBDA f : ~ValidDuration(f))
        fv == [i \in 1..Len(faults_valid) |-> ValidFaultRow(faults_valid[i], reg)]
        slab_summary == SlabSummary(fv)
        slabs == 1..Len(SLAB_ORDER)
        mttr_net == SumF([k \in slabs |-> slab_summary[k].Penalty_Net], slabs)
        avail == Avail(reg, fv, hours_month)
        availability_penalty_net ==
            SumF([i \in 1..Len(avail) |-> avail[i].Availability_Deduction_Net_Rs],
                 1..Len(avail))
        total_basic_sla ==
            RoundDiv(SumF([i \in 1..Len(reg) |-> reg[i].SLA_Charges_Rs], 1..Len(reg)), 100)
        mttr_cap_25pct == RoundDiv(total_basic_sla, 4)
        cap == Cap(mttr_net, mttr_cap_25pct)
        system_sla_penalty_net == cap.mttr_net_after_cap + availability_penalty_net
        higher_of_penalty == HigherOf(system_sla_penalty_net, a.field_unit_penalty)
    IN  [ computed           |-> TRUE,
          faults_valid       |-> fv,
          faults_invalid     |-> faults_invalid,
          slab_summary       |-> slab_summary,
          total_faults_count |-> SumF([k \in slabs |-> slab_summary[k].Count], slabs),
          mttr_gross         |-> SumF([k \in slabs |-> slab_summary[k].Penalty_Gross], slabs),
          mttr_exempt        |-> SumF([k \in slabs |-> slab_summary[k].Penalty_Exempted], slabs),
          mttr_net           |-> mttr_net,
          avail              |-> avail,
          availability_penalty_net |-> availability_penalty_net,
          downtime_all       |-> DowntimeAll(fv),
          missing_rows       |-> MissingRows(fv, reg),
          missing_group      |-> MissingGroup(fv, reg),
          total_basic_sla    |-> total_basic_sla,
          mttr_cap_25pct     |-> mttr_cap_25pct,
          mttr_net_after_cap |-> cap.mttr_net_after_cap,
          mttr_cap_applied   |-> cap.mttr_cap_applied,
          system_sla_penalty_net    |-> system_sla_penalty_net,
          higher_of_penalty         |-> higher_of_penalty,
          sla_recovery_after_vendor |->
              SlaRecovery(higher_of_penalty, a.vendor_deducted_penalty) ]

NotComputed == [computed |-> FALSE]

(***************************************************************************)
(* The ledger (process_sla, lines 448-503).  Paise throughout; total_rkm   *)
(* in 1/100 km.                                                            *)
(***************************************************************************)
\* vendor_basic_value: None (or NaN), or an amount
NoValue == [none |-> TRUE, v |-> 0]
Value(v) == [none |-> FALSE, v |-> v]

\* pan4: None, or a text
NoPan == [none |-> TRUE, text |-> <<>>]
Pan(t) == [none |-> FALSE, text |-> t]

\* the rate in percent, or None
pan_4th_digit_to_tds_rate(pan4) ==
    IF pan4.none THEN [none |-> TRUE, pct |-> 0]
    ELSE LET s == Upper(Strip(pan4.text)) IN
         IF s = <<>> THEN [none |-> TRUE, pct |-> 0]
         ELSE IF s \in { <<"P">>, <<"H">> } THEN [none |-> FALSE, pct |-> 1]
         ELSE [none |-> FALSE, pct |-> 2]

\* round(x * pct / 100, 0): whole rupees, held in paise
RoundToRupee(x, pct) == 100 * RoundDiv(x * pct, 10000)

\* lines 489-490
RelayingSplit(relaying_not_done_amt, relaying_as_retention) ==
    [ relaying_penalty_amt   |-> IF relaying_as_retention THEN 0 ELSE relaying_not_done_amt,
      relaying_retention_amt |-> IF relaying_as_retention THEN relaying_not_done_amt ELSE 0 ]

\* line 478 without the VIPA charge
NetBeforeSlaWithoutVipa(total_invoice_vendor, gst_tds, it_tds, vipa_total) ==
    total_invoice_vendor - gst_tds - it_tds

\* line 478
NetBeforeSla(total_invoice_vendor, gst_tds, it_tds, vipa_total) ==
    total_invoice_vendor - gst_tds - it_tds - vipa_total

\* lines 448-503; r is the record Compute made
Ledger(r, reg, a) ==
    LET total_rkm == RoundDiv(SumF([i \in 1..Len(reg) |-> reg[i].Route_KM], 1..Len(reg)), 10)
        system_basic == r.total_basic_sla
        supplied == ~a.vendor_basic_value.none
        vendor_basic_used == IF supplied THEN a.vendor_basic_value.v ELSE system_basic
        gst_on_vendor == RoundDiv(vendor_basic_used * 18, 100)
        total_invoice_vendor == vendor_basic_used + gst_on_vendor
        gst_tds == RoundToRupee(vendor_basic_used, 2)
        tds_rate == pan_4th_digit_to_tds_rate(a.pan4)
        it_tds == IF tds_rate.none THEN 0 ELSE RoundToRupee(vendor_basic_used, tds_rate.pct)
        total_statutory == gst_tds + it_tds
        vipa_base == IF vendor_basic_used > 50000000 THEN 100000 ELSE 50000
        vipa_gst == RoundDiv(vipa_base * 18, 100)
        vipa_total == vipa_base + vipa_gst
        net_before_sla == NetBeforeSla(total_invoice_vendor, gst_tds, it_tds, vipa_total)
        split == RelayingSplit(a.relaying_not_done_amt, a.relaying_as_retention)
        total_penalty_clause14 ==
            a.splice_loss_amt + r.mttr_net_after_cap + r.availability_penalty_net
            + a.supervisor_abs_amt + a.frt_abs_amt + a.petroller_abs_amt
            + split.relaying_penalty_amt
        manual_penalties_accounts ==
            a.splice_loss_amt + a.supervisor_abs_amt + a.frt_abs_amt + a.petroller_abs_amt
            + split.relaying_penalty_amt + a.other_recovery
        total_deductions_accounts ==
            r.sla_recovery_after_vendor + manual_penalties_accounts + split.relaying_retention_amt
    IN  [ total_rkm              |-> total_rkm,
          system_basic           |-> system_basic,
          vendor_basic_used      |-> vendor_basic_used,
          vendor_basic_source    |-> IF supplied THEN "Vendor Invoice"
                                     ELSE "System (RKM x Rate) (Vendor basic not provided)",
          gst_on_vendor          |-> gst_on_vendor,
          total_invoice_vendor   |-> total_invoice_vendor,
          gst_tds                |-> gst_tds,
          it_tds                 |-> it_tds,
          total_statutory        |-> total_statutory,
          net_before_penalty_and_vipa |-> total_invoice_vendor - total_statutory,
          vipa_base              |-> vipa_base,
          vipa_gst               |-> vipa_gst,
          vipa_total             |-> vipa_total,
          net_before_sla         |-> net_before_sla,
          relaying_penalty_amt   |-> split.relaying_penalty_amt,
          relaying_retention_amt |-> split.relaying_retention_amt,
          total_penalty_clause14    |-> total_penalty_clause14,
          manual_penalties_accounts |-> manual_penalties_accounts,
          total_deductions_accounts |-> total_deductions_accounts,
          net_payable_after_all     |-> net_before_sla - total_deductions_accounts ]

(***************************************************************************)
(* The two notes (process_sla, lines 505-711): the figures they print.     *)
(***************************************************************************)
\* f"{float(x):,.2f}": the sign, the rupees and the two decimals
fmt_money(x) ==
    LET m == IF x < 0 THEN -x ELSE x IN
    [neg |-> x < 0, rupees |-> m \div 100, paise |-> m % 100]

\* lines 422-428: NIL, or one line per missing group with its downtime
\* printed to 2 decimals (1/100 h)
missing_lines(r) ==
    IF Len(r.missing_group) = 0
    THEN <<"Routes in Format-C but not found in Format-A: NIL">>
    ELSE <<"Routes in Format-C but not found in Format-A (even after ID + Name matching):">>
         \o [ i \in 1..Len(r.missing_group) |->
                [ Route_ID_in_C   |-> r.missing_group[i].Route_ID_in_C,
                  Route_Name_in_C |-> r.missing_group[i].Route_Name_in_C,
                  Downtime        |-> RoundDiv(r.missing_group[i].Total_Downtime_Hrs, 36) ] ]

\* lines 514-601
AccountsNote(r, a) ==
    LET l == r.ledger IN
    [ kind |-> "accounts_note",
      Net_payable_before_penalty |-> fmt_money(l.net_before_sla),
      Net_SLA_recovery |-> fmt_money(r.sla_recovery_after_vendor),
      relaying_line |->
          IF a.relaying_as_retention
          THEN [label |-> "Retention", amount |-> fmt_money(l.relaying_retention_amt)]
          ELSE [label |-> "Penalty", amount |-> fmt_money(l.relaying_penalty_amt)],
      Total_Manual_Penalties |-> fmt_money(l.manual_penalties_accounts),
      retention_block |-> a.relaying_as_retention /\ l.relaying_retention_amt > 0,
      Total_Deductions |-> fmt_money(l.total_deductions_accounts),
      Net_Payable_to_Vendor |-> fmt_money(l.net_payable_after_all),
      Route_mapping_remarks |-> missing_lines(r) ]

\* line 665 without the retention
TotalDeductionPenaltyNoteWithoutRetention(total_penalty_clause14, relaying_retention_amt) ==
    total_penalty_clause14

\* line 665
TotalDeductionPenaltyNote(total_penalty_clause14, relaying_retention_amt) ==
    total_penalty_clause14 + relaying_retention_amt

\* lines 659-711: the numbered items and the two totals
ClauseNote(r, a) ==
    LET l == r.ledger IN
    [ kind |-> "clause_note",
      item1_splice_loss  |-> fmt_money(a.splice_loss_amt),
      item2_mttr         |-> fmt_money(r.mttr_net_after_cap),
      item3_availability |-> fmt_money(r.availability_penalty_net),
      item4_supervisor   |-> fmt_money(a.supervisor_abs_amt),
      item5_frt          |-> fmt_money(a.frt_abs_amt),
      item6_petroller    |-> fmt_money(a.petroller_abs_amt),
      item7_relaying     |->
          IF a.relaying_as_retention
          THEN [label |-> "Retention", amount |-> fmt_money(l.relaying_retention_amt)]
          ELSE [label |-> "Penalty", amount |-> fmt_money(l.relaying_penalty_amt)],
      Total_Penalty_1_to_6 |-> fmt_money(l.total_penalty_clause14),
      Total_Deduction |->
          fmt_money(TotalDeductionPenaltyNote(l.total_penalty_clause14, l.relaying_retention_amt)) ]

(***************************************************************************)
(* The inputs the model draws                                              *)
(***************************************************************************)
MaxRoutes == 2
MaxFaults == 2

\* rows of dataset A: R1 (10.013 km), R2 (10.030 km, written "R2.0", no
\* Month), R3 (-10 km, and the same normalized name as R1)
RouteRows ==
    { [ Route_ID |-> Cell(<<"R", "1">>), Route_Name |-> Cell(<<"A", " ", "-", " ", "B">>),
        RKM |-> Metres(10013), Month |-> Timestamp(2026, 11) ],
      [ Route_ID |-> Cell(<<"R", "2", ".", "0">>), Route_Name |-> Cell(<<"C", "ndash", "D">>),
        RKM |-> Metres(10030), Month |-> NoMonth ],
      [ Route_ID |-> Cell(<<" ", "R", "3">>), Route_Name |-> Cell(<<"a", "-", "b">>),
        RKM |-> Metres(-10000), Month |-> Timestamp(2026, 11) ] }

\* rows of dataset C: four with a positive duration (resolved by id, by
\* name, by neither, by id against a matching name) and four without
FaultRows ==
    { [ Route_ID |-> Cell(<<"R", "1">>), Route_Name |-> Cell(<<"Z">>),
        Duration |-> Cell(<<"7", ":", "1", "2">>), Exempt |-> Cell(<<"N", "o">>) ],
      [ Route_ID |-> Cell(<<"R", "9">>), Route_Name |-> Cell(<<" ", "a", " ", " ", "-", "nbsp", "b">>),
        Duration |-> Cell(<<"3", "6">>), Exempt |-> Cell(<<"Y", "E", "S">>) ],
      [ Route_ID |-> Cell(<<"R", "9", ".", "0">>), Route_Name |-> Cell(<<"Z">>),
        Duration |-> Cell(<<"4", ".", "0", "1">>), Exempt |-> NaNCell ],
      [ Route_ID |-> Cell(<<"R", "2">>), Route_Name |-> Cell(<<"A", "-", "B">>),
        Duration |-> Cell(<<"8", "0", "0">>), Exempt |-> Cell(<<"e", "x", "e", "m", "p", "t", "e", "d">>) ],
      [ Route_ID |-> Cell(<<"R", "1">>), Route_Name |-> Cell(<<"Z">>),
        Duration |-> Cell(<<"a", "b", "c">>), Exempt |-> Cell(<<"Y", "E", "S">>) ],
      [ Route_ID |-> Cell(<<"R", "2">>), Route_Name |-> Cell(<<"Z">>),
        Duration |-> Cell(<<"0">>), Exempt |-> Cell(<<"N", "o">>) ],
      [ Route_ID |-> Cell(<<"R", "9">>), Route_Name |-> Cell(<<"Z">>),
        Duration |-> NaNCell, Exempt |-> NaNCell ],
      [ Route_ID |-> Cell(<<"R", "1">>), Route_Name |-> Cell(<<"A", "-", "B">>),
        Duration |-> Cell(<<"-", "1">>), Exempt |-> Cell(<<"N", "o">>) ] }

SeqsUpTo(S, n) == UNION { [1..k -> S] : k \in 0..n }

\* the header row of dataset A: the required columns
HeaderA == required_a

\* a header of dataset C that is none of those the engine looks for
Filler(k) == <<"c", k>>
\* "Exempted (Yes/No)"
H_Exempt == <<"E","x","e","m","p","t","e","d"," ","(","Y","e","s","/","N","o",")">>
\* "Fault Duration (Hrs)"
H_FaultDuration == <<"F","a","u","l","t"," ","D","u","r","a","t","i","o","n"," ","(","H","r","s",")">>

\* the header row of dataset C: 14 columns, the duration in column N and an
\* exemption column; and the same without the exemption column
HeaderC ==
    <<H_RouteId, H_RouteName, Filler("1"), Filler("2"), Filler("3"), Filler("4"), Filler("5"),
      Filler("6"), Filler("7"), Filler("8"), Filler("9"), H_Exempt, Filler("0"), H_FaultDuration>>
HeaderCNoExempt == [HeaderC EXCEPT ![12] = <<"c", "x">>]

\* dataset A: up to MaxRoutes rows with pairwise different route ids
FilesA ==
    { [exists |-> TRUE, columns |-> HeaderA, rows |-> r] :
        r \in { q \in SeqsUpTo(RouteRows, MaxRoutes) :
                  \A i, j \in 1..Len(q) : i # j => q[i].Route_ID # q[j].Route_ID } }

\* dataset C: up to MaxFaults rows; without an exemption column, at most one
FilesC ==
    { [exists |-> TRUE, columns |-> HeaderC, rows |-> r] : r \in SeqsUpTo(FaultRows, MaxFaults) }
    \cup { [exists |-> TRUE, columns |-> HeaderCNoExempt, rows |-> r] : r \in SeqsUpTo(FaultRows, 1) }

\* the arguments of a call: the rate (paise per km) is 0, 1.02 or 320.00;
\* the field-unit and vendor-deducted penalties (paise) are none, 1000.00
\* against 300.00, or none against 99999.00
\* the other arguments keep the defaults of the signature (lines 243-253)
\* every amount of money among the arguments is a whole number of paise
CallArgs(rate, field, vendor) ==
    [ rate_per_km |-> rate, field_unit_penalty |-> field, vendor_deducted_penalty |-> vendor,
      vendor_basic_value |-> NoValue, pan4 |-> NoPan, other_recovery |-> 0,
      splice_loss_amt |-> 0, supervisor_abs_amt |-> 0, frt_abs_amt |-> 0,
      petroller_abs_amt |-> 0, relaying_not_done_amt |-> 0, relaying_as_retention |-> FALSE ]
Args ==
    { CallArgs(0, 0, 0),
      CallArgs(102, 100000, 30000),
      CallArgs(32000, 100000, 30000), CallArgs(32000, 0, 9999900) }

Clock == { [year |-> 2027, month |-> 2] }

(***************************************************************************)
(* The run                                                                 *)
(***************************************************************************)
HarnessIdle == mttr_in = <<>> /\ mttr_out = <<>>

\* no earlier call
NoRun == [ran |-> FALSE]

\* before the call: the two datasets, the arguments and the date are drawn
Start(files_a, files_c, call_args, clocks) ==
    /\ annex_a \in files_a
    /\ annex_c \in files_c
    /\ args \in call_args
    /\ now \in clocks
    /\ pc = "idle"
    /\ ui = ""
    /\ error = NoError
    /\ reads = <<>>
    /\ routes = <<>>
    /\ total_hours_month = 0
    /\ res = NotComputed
    /\ written = <<>>
    /\ first = NoRun
    /\ HarnessIdle

Init == Start(FilesA \cup {NoFile}, FilesC \cup {NoFile}, Args, Clock)

\* app.py, lines 109-142: the Generate button
generate ==
    /\ pc = "idle"
    /\ \/ /\ (~annex_a.exists \/ ~annex_c.exists)
          /\ ui' = "Please upload BOTH Annexure A and Annexure C."
          /\ pc' = "stopped"
       \/ /\ annex_a.exists /\ annex_c.exists
          /\ args.rate_per_km <= 0
          /\ ui' = "Rate per KM must be greater than 0."
          /\ pc' = "stopped"
       \/ /\ annex_a.exists /\ annex_c.exists
          /\ args.rate_per_km > 0
          /\ ui' = ui
          /\ pc' = "readA"
    /\ UNCHANGED <<world, error, reads, routes, total_hours_month, res, written, harness, first>>

\* process_sla called with the arguments as they are
process_sla ==
    /\ pc = "idle"
    /\ pc' = "readA"
    /\ UNCHANGED <<world, ui, error, reads, routes, total_hours_month, res, written, harness, first>>

\* lines 255-308: dataset A is read, its columns checked, the registry built
\* and the billing month found
ReadA ==
    /\ pc = "readA"
    /\ IF ~annex_a.exists
       THEN /\ error' = FileNotFoundError
            /\ pc' = "failed"
            /\ UNCHANGED <<reads, routes, total_hours_month>>
       ELSE LET missing_a == MissingColumns(required_a, StripColumns(annex_a.columns))
                ym == BillingMonth(annex_a.rows, now)
            IN  /\ reads' = Append(reads, "A")
                /\ IF missing_a # <<>>
                   THEN /\ error' = ValueError("Format A missing columns", missing_a)
                        /\ pc' = "failed"
                        /\ UNCHANGED <<routes, total_hours_month>>
                   ELSE /\ routes' = Registry(annex_a.rows, args.rate_per_km)
                        /\ IF ym.month \notin 1..12
                           THEN /\ error' = IllegalMonthError
                                /\ pc' = "failed"
                                /\ UNCHANGED total_hours_month
                           ELSE /\ total_hours_month' = HoursOfBillingMonth(annex_a.rows, now)
                                /\ pc' = "readC"
                                /\ error' = error
    /\ UNCHANGED <<world, ui, res, written, harness, first>>

\* lines 310-319: dataset C is read, its columns checked and the duration
\* column located
ReadC ==
    /\ pc = "readC"
    /\ IF ~annex_c.exists
       THEN /\ error' = FileNotFoundError
            /\ pc' = "failed"
            /\ reads' = reads
       ELSE LET columns == StripColumns(annex_c.columns)
                missing_c == MissingColumns(must_have_c, columns)
            IN  /\ reads' = Append(reads, "C")
                /\ IF missing_c # <<>>
                   THEN /\ error' = ValueError("Format C missing required columns", missing_c)
                        /\ pc' = "failed"
                   ELSE IF detect_fault_duration_column(columns) = NoColumn
                   THEN /\ error' = ValueError("Fault Duration column not found.", <<>>)
                        /\ pc' = "failed"
                   ELSE /\ pc' = "compute"
                        /\ error' = error
    /\ UNCHANGED <<world, ui, routes, total_hours_month, res, written, harness, first>>

\* lines 321-503
ComputeStep ==
    /\ pc = "compute"
    /\ res' = LET r == Compute(routes, annex_c, total_hours_month, args)
               IN  r @@ [ledger |-> Ledger(r, routes, args)]
    /\ pc' = "writeXlsx"
    /\ UNCHANGED <<world, ui, error, reads, routes, total_hours_month, written, harness, first>>

\* lines 747-785: the sheets of the workbook; Invalid_Fault_Rows only when
\* there is an invalid row
Workbook(r) ==
    [ kind |-> "xlsx",
      sheets |-> <<"Availability_Report", "MTTR_Fault_Report", "MTTR_Slab_Summary", "Summary">>
                 \o (IF Len(r.faults_invalid) > 0 THEN <<"Invalid_Fault_Rows">> ELSE <<>>),
      Invalid_Fault_Rows |-> IF Len(r.faults_invalid) > 0 THEN r.faults_invalid ELSE <<>>,
      Route_Missing_in_A |->
          [ i \in 1..Len(r.faults_valid) |->
              IF r.faults_valid[i].Route_ID_Final \in route_ids_in_a(routes)
              THEN "NO" ELSE "YES" ] ]

WriteWorkbook ==
    /\ pc = "writeXlsx"
    /\ written' = Append(written, Workbook(res))
    /\ pc' = "writeAcc"
    /\ UNCHANGED <<world, ui, error, reads, routes, total_hours_month, res, harness, first>>

\* lines 787-788
WriteAccountsNote ==
    /\ pc = "writeAcc"
    /\ written' = Append(written, AccountsNote(res, args))
    /\ pc' = "writeTech"
    /\ UNCHANGED <<world, ui, error, reads, routes, total_hours_month, res, harness, first>>

\* lines 790-793
WriteClauseNote ==
    /\ pc = "writeTech"
    /\ written' = Append(written, ClauseNote(res, args))
    /\ pc' = "done"
    /\ UNCHANGED <<world, ui, error, reads, routes, total_hours_month, res, harness, first>>

Next ==
    \/ generate
    \/ process_sla
    \/ ReadA
    \/ ReadC
    \/ ComputeStep
    \/ WriteWorkbook
    \/ WriteAccountsNote
    \/ WriteClauseNote

Spec == Init /\ [][Next]_vars

(***************************************************************************)
(* Runs on datasets whose header rows differ.                              *)
(***************************************************************************)
\* header rows of dataset A: as required; RKM padded with blanks; RKM in
\* lower case; RKM absent; BA and Month absent
SchemaHeadersA ==
    { HeaderA,
      [HeaderA EXCEPT ![8] = <<" ","R","K","M"," ">>],
      [HeaderA EXCEPT ![8] = <<"r","k","m">>],
      SelectSeq(HeaderA, LAMBDA c : c # H_RKM),
      SelectSeq(HeaderA, LAMBDA c : c \notin {H_BA, H_Month}) }

\* header rows of dataset C: as drawn above; the route id padded with
\* blanks; column N named "Hrs" (taken by its place); "DEFAULT DURATIONS" in
\* column 3 of 3; 3 columns without a duration; the route id absent; the
\* route id and the route name absent
SchemaHeadersC ==
    { HeaderC,
      [HeaderC EXCEPT ![1] = <<" "," ","T","r","a","n","s","n","e","t"," ","R","o","u","t","e"," ","I","D"," ">>],
      [HeaderC EXCEPT ![14] = <<"H","r","s">>],
      <<H_RouteId, H_RouteName, <<"D","E","F","A","U","L","T"," ","D","U","R","A","T","I","O","N","S">>>>,
      <<H_RouteId, H_RouteName, <<"H","r","s">>>>,
      [HeaderC EXCEPT ![1] = <<"R","o","u","t","e"," ","I","D">>],
      <<<<"R","o","u","t","e"," ","I","D">>, <<"R","o","u","t","e"," ","N","a","m","e">>, H_FaultDuration>>,
      <<<<"R","o","u","t","e"," ","I","D">>, <<"R","o","u","t","e"," ","N","a","m","e">>>> }

SchemaFilesA ==
    { [exists |-> TRUE, columns |-> h, rows |-> r] :
        h \in SchemaHeadersA, r \in SeqsUpTo(RouteRows, 1) }
SchemaFilesC ==
    { [exists |-> TRUE, columns |-> h, rows |-> r] :
        h \in SchemaHeadersC,
        r \in SeqsUpTo({ f \in FaultRows : f.Route_ID = Cell(<<"R", "1">>) }, 1) }

InitSchema ==
    Start(SchemaFilesA \cup {NoFile}, SchemaFilesC \cup {NoFile},
          {CallArgs(0, 0, 0), CallArgs(102, 100000, 30000)}, Clock)

SpecSchema == InitSchema /\ [][Next]_vars

(***************************************************************************)
(* The slab function on its own: two durations are drawn, the function is  *)
(* applied to each in turn.                                                *)
(***************************************************************************)
MaxHours == 98

\* every whole hour up to MaxHours, one second either side of it and 36 s
\* (0.01 h) after it, a negative duration and NaN
MttrDurations ==
    { Hours(h * SecPerHour + e) : h \in 0..MaxHours, e \in {-1, 0, 1, 36} }
    \cup { Hours(-SecPerHour), NaN }

InitMttr ==
    /\ mttr_in \in { <<a, b>> : a \in MttrDurations, b \in MttrDurations }
    /\ mttr_out = <<>>
    /\ annex_a = NoFile /\ annex_c = NoFile
    /\ args \in { a \in Args : a.rate_per_km = 0 /\ a.field_unit_penalty = 0
                                /\ a.vendor_deducted_penalty = 0 }
    /\ now \in Clock
    /\ pc = "harness" /\ ui = "" /\ error = NoError /\ reads = <<>> /\ routes = <<>>
    /\ total_hours_month = 0 /\ res = NotComputed /\ written = <<>>
    /\ first = NoRun

MttrApply ==
    /\ Len(mttr_out) < Len(mttr_in)
    /\ mttr_out' = Append(mttr_out,
                          mttr_penalty_non_cumulative(mttr_in[Len(mttr_out) + 1]))
    /\ UNCHANGED <<mttr_in, world, run, first>>

NextMttr == MttrApply

SpecMttr == InitMttr /\ [][NextMttr]_vars

(***************************************************************************)
(* Claims about the slab function (checked under SpecMttr)                 *)
(***************************************************************************)
\* the duration rounded up to whole hours, stated without the code's ceil
HoursRoundedUp(secs) ==
    CHOOSE h \in 0..(secs \div SecPerHour + 1) :
        h * SecPerHour >= secs /\ (h - 1) * SecPerHour < secs

\* ceil((h - 48) / 24), stated without the code's ceil
DaysBeyond48(h) ==
    CHOOSE k \in 0..h : 24 * k >= h - 48 /\ 24 * (k - 1) < h - 48

SlabTablePenalty(h) ==
    CASE h <= 4              -> 0
      [] h >= 5 /\ h <= 6    -> 500
      [] h >= 7 /\ h <= 24   -> 500 + 100 * (h - 6)
      [] h >= 25 /\ h <= 48  -> 5000
      [] h > 48              -> 5000 + 500 * DaysBeyond48(h)

SlabTableBucket(h) ==
    CASE h <= 4              -> "<=4"
      [] h >= 5 /\ h <= 6    -> ">4-6"
      [] h >= 7 /\ h <= 24   -> ">6-24"
      [] h >= 25 /\ h <= 48  -> ">24-48"
      [] h > 48              -> ">48"

PositiveDuration(d) == ~d.nan /\ d.secs > 0

\* C1: for every duration d > 0 the function returns the one slab value of
\* the table for h = d rounded up to whole hours, with the label of the
\* bucket that contains h; 4.0 h gives 0, 4.01 h gives 500, 24 h gives 2300,
\* 48 h gives 5000 and 49 h gives 5500.
C1_SlabTable ==
    \A i \in 1..Len(mttr_out) :
        LET d == mttr_in[i]
            r == mttr_out[i]
        IN  PositiveDuration(d) =>
              /\ r.pen = SlabTablePenalty(HoursRoundedUp(d.secs))
              /\ r.slab = SlabTableBucket(HoursRoundedUp(d.secs))
              /\ (d.secs = 4 * SecPerHour => r.pen = 0)
              /\ (d.secs = 4 * SecPerHour + 36 => r.pen = 500)
              /\ (d.secs = 24 * SecPerHour => r.pen = 2300)
              /\ (d.secs = 48 * SecPerHour => r.pen = 5000)
              /\ (d.secs = 49 * SecPerHour => r.pen = 5500)

\* the function has been applied to 4.01 h and to 49 h
C1_Witness ==
    /\ Len(mttr_out) = 2
    /\ mttr_in[1] = Hours(4 * SecPerHour + 36) /\ mttr_out[1].slab = ">4-6"
    /\ mttr_in[2] = Hours(49 * SecPerHour) /\ mttr_out[2].slab = ">48"

\* C2: the penalty is monotonically non-decreasing in the duration: for all
\* durations d1 <= d2 the penalty of d1 is at most the penalty of d2.
C2_Monotone ==
    ( /\ Len(mttr_out) = 2
      /\ ~mttr_in[1].nan /\ ~mttr_in[2].nan
      /\ mttr_in[1].secs <= mttr_in[2].secs )
    => mttr_out[1].pen <= mttr_out[2].pen

\* both results are in, for 48 h and one second more than 48 h
C2_Witness ==
    /\ Len(mttr_out) = 2
    /\ mttr_in[1] = Hours(48 * SecPerHour) /\ mttr_in[2] = Hours(48 * SecPerHour + 1)
    /\ mttr_out[1].pen < mttr_out[2].pen

(***************************************************************************)
(* Claims about one run (checked under Spec)                               *)
(***************************************************************************)
Done == pc = "done"

\* the valid faults and their indices
FV == res.faults_valid
FVI == 1..Len(res.faults_valid)

\* the penalty (paise) the slab table gives a valid fault
TablePenalty(f) == 100 * SlabTablePenalty(HoursRoundedUp(f.Duration_Hrs))

\* the net MTTR total before the cap: the table penalties of the valid,
\* non-exempt faults
UncappedNet ==
    SumF([i \in FVI |-> IF FV[i].Is_Exempt THEN 0 ELSE TablePenalty(FV[i])], FVI)

\* the sum of all routes' SLA charges, in 1/10000 Rs
SumOfCharges == SumF([i \in 1..Len(routes) |-> routes[i].SLA_Charges_Rs], 1..Len(routes))

CapOutcome ==
    /\ (UncappedNet <= res.mttr_cap_25pct =>
            res.mttr_net_after_cap = UncappedNet /\ res.mttr_cap_applied = "NO")
    /\ (res.mttr_cap_applied = "YES" <=> UncappedNet > res.mttr_cap_25pct)
    /\ res.mttr_cap_applied \in {"YES", "NO"}

\* C3 as stated: the MTTR net after the cap never exceeds 25% of the total
\* basic SLA value; it equals the uncapped net when that is within the cap,
\* and the cap is reported applied exactly when the uncapped net exceeds it.
C3_CapWithinQuarter ==
    Done =>
        /\ 4 * res.mttr_net_after_cap <= res.total_basic_sla
        /\ CapOutcome

\* C3 as amended: the MTTR net after the cap never exceeds the cap, which is
\* 25% of the total basic SLA value rounded to 2 decimals (the total itself
\* being the sum of the charges rounded to 2 decimals), so it exceeds the
\* exact 25% by at most half a paisa; the rest as stated.
C3_CapWithinRoundedQuarter ==
    Done =>
        /\ res.mttr_net_after_cap <= res.mttr_cap_25pct
        /\ 4 * res.mttr_cap_25pct - res.total_basic_sla \in -2..2
        /\ 100 * res.total_basic_sla - SumOfCharges \in -50..50
        /\ CapOutcome

\* the cap bound, and rounding put it above the exact quarter of the total
C3_Witness ==
    /\ Done
    /\ res.mttr_cap_applied = "YES"
    /\ UncappedNet > res.mttr_net_after_cap
    /\ 4 * res.mttr_net_after_cap > res.total_basic_sla
    /\ res.total_basic_sla > 0

\* C4: gross = exempted + net for every valid fault, every slab row and the
\* totals; an exempt fault puts its whole penalty in exempted and 0 in net,
\* a non-exempt fault 0 in exempted and its whole penalty in net.
C4_GrossIsExemptedPlusNet ==
    Done =>
        /\ \A i \in FVI :
             /\ FV[i].MTTR_Penalty_Tender_Rs = TablePenalty(FV[i])
             /\ FV[i].MTTR_Penalty_Tender_Rs =
                    FV[i].MTTR_Penalty_Exempted_Rs + FV[i].MTTR_Penalty_Net_Rs
             /\ FV[i].Is_Exempt =>
                    /\ FV[i].MTTR_Penalty_Exempted_Rs = TablePenalty(FV[i])
                    /\ FV[i].MTTR_Penalty_Net_Rs = 0
             /\ ~FV[i].Is_Exempt =>
                    /\ FV[i].MTTR_Penalty_Exempted_Rs = 0
                    /\ FV[i].MTTR_Penalty_Net_Rs = TablePenalty(FV[i])
        /\ \A k \in 1..Len(res.slab_summary) :
             LET row == res.slab_summary[k]
                 in == { i \in FVI : SlabTableBucket(HoursRoundedUp(FV[i].Duration_Hrs))
                                        = row.MTTR_Slab }
             IN  /\ row.Penalty_Gross = row.Penalty_Exempted + row.Penalty_Net
                 /\ row.Penalty_Exempted =
                        SumF([i \in FVI |-> IF FV[i].Is_Exempt THEN TablePenalty(FV[i]) ELSE 0], in)
                 /\ row.Penalty_Net = 
                        SumF([i \in FVI |-> IF FV[i].Is_Exempt THEN 0 ELSE TablePenalty(FV[i])], in)
        /\ res.mttr_gross = res.mttr_exempt + res.mttr_net
        /\ res.mttr_exempt =
               SumF([i \in FVI |-> IF FV[i].Is_Exempt THEN TablePenalty(FV[i]) ELSE 0], FVI)
        /\ res.mttr_net = UncappedNet

\* an exempt and a non-exempt fault, both with a penalty
C4_Witness ==
    /\ Done
    /\ \E i, j \in FVI :
         /\ FV[i].Is_Exempt /\ FV[i].MTTR_Penalty_Exempted_Rs > 0
         /\ ~FV[j].Is_Exempt /\ FV[j].MTTR_Penalty_Net_Rs > 0

\* C5: the adopted penalty is the greater of the system SLA penalty (capped
\* MTTR net + availability net) and the field-unit penalty, never their sum;
\* the recovery is max(adopted - vendor deducted, 0) and so never negative.
C5_HigherOfAndRecovery ==
    Done =>
        LET system == res.mttr_net_after_cap + res.availability_penalty_net
            field == args.field_unit_penalty
            adopted == res.higher_of_penalty
            rest == adopted - args.vendor_deducted_penalty
        IN  /\ res.system_sla_penalty_net = system
            /\ adopted >= system /\ adopted >= field
            /\ adopted \in {system, field}
            /\ res.sla_recovery_after_vendor >= 0
            /\ res.sla_recovery_after_vendor >= rest
            /\ res.sla_recovery_after_vendor \in {0, rest}

\* both penalties are positive, the field-unit one is adopted, and part of
\* it is left after the vendor's deduction
C5_Witness ==
    /\ Done
    /\ res.system_sla_penalty_net > 0
    /\ args.field_unit_penalty > res.system_sla_penalty_net
    /\ res.higher_of_penalty = args.field_unit_penalty
    /\ args.vendor_deducted_penalty > 0
    /\ res.sla_recovery_after_vendor > 0

\* the rows of dataset C and of dataset A as the claims read them
CRows == annex_c.rows
CleanedId(r) == clean_route_id(CRows[r].Route_ID)
NormalizedName(r) == norm_route_name(Cell(str_of_cell(CRows[r].Route_Name)))
RegistryIds == { clean_route_id(annex_a.rows[k].Route_ID) : k \in 1..Len(annex_a.rows) }
RegistryRoutesNamed(n) ==
    { k \in 1..Len(annex_a.rows) : norm_route_name(annex_a.rows[k].Route_Name) = n }
MissingFlag(i) == written[1].Route_Missing_in_A[i]

\* C6: a valid fault resolves by id when its cleaned id is a registry id
\* (whatever its name), otherwise by normalized name to that route's id
\* (Matched_By_Name = YES), otherwise it keeps its raw id and is reported
\* with 'Route Missing in A' = YES; it resolves to at most one route.
C6_IdThenNameThenMissing ==
    Done =>
        \A i \in FVI :
            LET r == FV[i].row
                final == FV[i].Route_ID_Final
            IN  /\ CleanedId(r) \in RegistryIds =>
                      /\ final = CleanedId(r)
                      /\ FV[i].Matched_By_Name = "NO"
                      /\ MissingFlag(i) = "NO"
                /\ (CleanedId(r) \notin RegistryIds /\ RegistryRoutesNamed(NormalizedName(r)) # {}) =>
                      /\ \E k \in RegistryRoutesNamed(NormalizedName(r)) :
                             final = clean_route_id(annex_a.rows[k].Route_ID)
                      /\ FV[i].Matched_By_Name = "YES"
                      /\ MissingFlag(i) = "NO"
                /\ (CleanedId(r) \notin RegistryIds /\ RegistryRoutesNamed(NormalizedName(r)) = {}) =>
                      /\ final = CleanedId(r)
                      /\ FV[i].Matched_By_Name = "NO"
                      /\ MissingFlag(i) = "YES"
                /\ Cardinality({ k \in 1..Len(routes) : routes[k].Route_ID = final }) <= 1

\* one fault resolved by id although its name is another route's, and one
\* resolved by name
C6_Witness ==
    /\ Done
    /\ \E i, j \in FVI :
         /\ CleanedId(FV[i].row) \in RegistryIds
         /\ \E k \in RegistryRoutesNamed(NormalizedName(FV[i].row)) :
                clean_route_id(annex_a.rows[k].Route_ID) # FV[i].Route_ID_Final
         /\ FV[j].Matched_By_Name = "YES"

\* the summed hours (in seconds) of the valid faults resolved to route id;
\* net leaves the exempt ones out
ClaimDowntime(id, net) ==
    LET on == { i \in FVI : FV[i].Route_ID_Final = id /\ (net => ~FV[i].Is_Exempt) } IN
    SumF([i \in FVI |-> parse_duration_to_hours(CRows[FV[i].row].Duration).secs], on)

\* (hours in month - downtime) / hours in month * 100 clamped to [0, 100],
\* as the numerator over the month's seconds
ClaimUptimeNum(downtime) ==
    LET month == total_hours_month * SecPerHour IN
    IF downtime >= month THEN 0
    ELSE IF downtime <= 0 THEN 100 * month
    ELSE 100 * (month - downtime)

\* the deduction ladder on the fraction num / den
ClaimLadder(pct, num, den) ==
    /\ pct \in {0, 10, 25, 50, 75, 100}
    /\ pct = 0 <=> num >= 99 * den
    /\ pct = 10 <=> (num >= 98 * den /\ num < 99 * den)
    /\ pct = 25 <=> (num >= 97 * den /\ num < 98 * den)
    /\ pct = 50 <=> (num >= 96 * den /\ num < 97 * den)
    /\ pct = 75 <=> (num >= 95 * den /\ num < 96 * den)
    /\ pct = 100 <=> num < 95 * den

\* amount (paise) is charge (1/10000 Rs) * pct / 100 to the nearest paisa
ClaimAmount(amount, charge, pct) ==
    2000 * amount - charge * (pct \div 5) \in -1000..1000

C8_NoNegativeAmount ==
    Done =>
        /\ \A i \in FVI :
             /\ FV[i].MTTR_Penalty_Tender_Rs >= 0
             /\ FV[i].MTTR_Penalty_Exempted_Rs >= 0
             /\ FV[i].MTTR_Penalty_Net_Rs >= 0
        /\ res.mttr_gross >= 0 /\ res.mttr_exempt >= 0 /\ res.mttr_net >= 0
        /\ res.mttr_net_after_cap >= 0
        /\ \A k \in 1..Len(res.avail) :
             res.avail[k].Deduction_Rs_Gross >= 0 /\ res.avail[k].Deduction_Rs_Net >= 0
        /\ res.availability_penalty_net >= 0
        /\ res.system_sla_penalty_net >= 0

\* the rows of dataset C whose duration parses and is positive
ClaimValidRows ==
    { r \in 1..Len(CRows) :
        LET d == parse_duration_to_hours(CRows[r].Duration) IN ~d.nan /\ d.secs > 0 }
ClaimInvalidRows == (1..Len(CRows)) \ ClaimValidRows
RowsOf(seq) == { seq[i].row : i \in 1..Len(seq) }

\* C9: every row of dataset C is in exactly one of valid (duration parses
\* and is > 0) and invalid; invalid rows add nothing to any MTTR penalty,
\* slab count, route downtime or availability deduction; when there is an
\* invalid row, all invalid rows are in the invalid-rows sheet.
C9_InvalidRowsSegregated ==
    Done =>
        /\ RowsOf(FV) = ClaimValidRows
        /\ RowsOf(res.faults_invalid) = ClaimInvalidRows
        /\ Len(FV) = Cardinality(ClaimValidRows)
        /\ Len(res.faults_invalid) = Cardinality(ClaimInvalidRows)
        /\ res.total_faults_count = Cardinality(ClaimValidRows)
        /\ \A k \in 1..Len(res.slab_summary) :
             res.slab_summary[k].Count =
                Cardinality({ i \in FVI : FV[i].MTTR_Slab = res.slab_summary[k].MTTR_Slab })
        /\ res.mttr_gross = SumF([i \in FVI |-> TablePenalty(FV[i])], FVI)
        /\ \A k \in 1..Len(res.avail) :
             /\ res.avail[k].Downtime_Hrs_Total = ClaimDowntime(res.avail[k].Route_ID, FALSE)
             /\ res.avail[k].Downtime_Hrs_Net = ClaimDowntime(res.avail[k].Route_ID, TRUE)
        /\ ClaimInvalidRows # {} =>
             /\ \E n \in 1..Len(written[1].sheets) : written[1].sheets[n] = "Invalid_Fault_Rows"
             /\ RowsOf(written[1].Invalid_Fault_Rows) = ClaimInvalidRows

\* a valid and an invalid row, the invalid one exported
C9_Witness ==
    /\ Done
    /\ ClaimValidRows # {} /\ ClaimInvalidRows # {}
    /\ RowsOf(written[1].Invalid_Fault_Rows) = ClaimInvalidRows
    /\ res.mttr_gross > 0

\* C10: a call of process_sla with rate_per_km <= 0 fails with an error
\* before either dataset is read and before any output is written.
C10_RateCheckedBeforeReading ==
    (args.rate_per_km <= 0 /\ pc \notin {"idle", "stopped", "harness"}) =>
        /\ reads = <<>>
        /\ written = <<>>
        /\ pc \in {"readA", "failed"}

(***************************************************************************)
(* Claims about the schema checks (checked under SpecSchema)               *)
(***************************************************************************)
Range(q) == { q[i] : i \in 1..Len(q) }

\* the required headers a file lacks: exact text, blanks at the ends apart
ClaimRequiredA ==
    {H_FORMAT, H_BA, H_OA, H_Month, H_SrNo, H_RouteId, H_RouteName, H_RKM, H_Agency}
ClaimRequiredC == {H_RouteId, H_RouteName}
ClaimMissing(required, file) ==
    { c \in required : \A i \in 1..Len(file.columns) : Strip(file.columns[i]) # c }

HasRead(d) == \E i \in 1..Len(reads) : reads[i] = d
SchemaErrorRaised == error.type = "ValueError" /\ error.columns # <<>>
NothingComputed ==
    routes = <<>> /\ total_hours_month = 0 /\ res = NotComputed /\ written = <<>>

\* C11 as stated: when a required column is absent from dataset A or from
\* dataset C the call aborts before any computation is performed, with an
\* error naming every missing column.
C11_SchemaErrorBeforeAnyComputation ==
    /\ (HasRead("A") /\ ClaimMissing(ClaimRequiredA, annex_a) # {}) =>
          /\ pc = "failed" /\ SchemaErrorRaised /\ NothingComputed
          /\ Range(error.columns) = ClaimMissing(ClaimRequiredA, annex_a)
    /\ (HasRead("C") /\ ClaimMissing(ClaimRequiredC, annex_c) # {}) =>
          /\ pc = "failed" /\ SchemaErrorRaised /\ NothingComputed
          /\ Range(error.columns) = ClaimMissing(ClaimRequiredC, annex_c)

\* C11 amended: a column missing from dataset A aborts the call once A is
\* read, before anything is computed; a column missing from dataset C
\* aborts it once C is read, when the registry of A and the billing month
\* are already made but no fault is processed, no penalty computed and no
\* output written; either error names every missing column of its dataset.
C11_SchemaErrorNamesEveryMissingColumn ==
    /\ (HasRead("A") /\ ClaimMissing(ClaimRequiredA, annex_a) # {}) =>
          /\ pc = "failed" /\ SchemaErrorRaised /\ NothingComputed
          /\ error.message = "Format A missing columns"
          /\ Range(error.columns) = ClaimMissing(ClaimRequiredA, annex_a)
          /\ reads = <<"A">>
    /\ (HasRead("C") /\ ClaimMissing(ClaimRequiredC, annex_c) # {}) =>
          /\ pc = "failed" /\ SchemaErrorRaised
          /\ error.message = "Format C missing required columns"
          /\ Range(error.columns) = ClaimMissing(ClaimRequiredC, annex_c)
          /\ Len(routes) = Len(annex_a.rows) /\ total_hours_month > 0
          /\ res = NotComputed /\ written = <<>>
    /\ SchemaErrorRaised =>
          \/ HasRead("A") /\ ~HasRead("C") /\ ClaimMissing(ClaimRequiredA, annex_a) # {}
          \/ HasRead("C") /\ ClaimMissing(ClaimRequiredC, annex_c) # {}

\* dataset C lacks both of its required columns and the error names the
\* two, a registry of one route being built already
C11_Witness ==
    /\ pc = "failed"
    /\ error.message = "Format C missing required columns"
    /\ Len(error.columns) = 2
    /\ Len(routes) = 1
    /\ res = NotComputed /\ written = <<>>

(***************************************************************************)
(* Runs on one small pair of datasets with the optional arguments drawn.   *)
(***************************************************************************)
\* dataset A: one route R1 of 10 km, billed for November 2026 (30 days)
ScenarioA ==
    [ exists |-> TRUE, columns |-> HeaderA,
      rows |-> << [ Route_ID |-> Cell(<<"R", "1">>), Route_Name |-> Cell(<<"A", "-", "B">>),
                    RKM |-> Metres(10000), Month |-> Timestamp(2026, 11) ] >> ]

\* dataset C: one fault on R1 of "5:00", not exempt
ScenarioC ==
    [ exists |-> TRUE, columns |-> HeaderC,
      rows |-> << [ Route_ID |-> Cell(<<"R", "1">>), Route_Name |-> Cell(<<"A", "-", "B">>),
                    Duration |-> Cell(<<"5", ":", "0", "0">>), Exempt |-> Cell(<<"N", "o">>) ] >> ]

\* the manual amounts of one call (paise): none, or all of them
ManualAmounts ==
    { [splice |-> 0, sup |-> 0, frt |-> 0, pet |-> 0, other |-> 0],
      [splice |-> 12345, sup |-> 150000, frt |-> 500000, pet |-> 50000, other |-> 77700] }

\* the rate is 0 or 100.00; the vendor's basic value is absent, 12345.67 or
\* 600000.00; the PAN digit is absent, blank, "p" or "C"; the relaying
\* amount is 0 or 2000.00, as a penalty or as a retention
LedgerArgs ==
    { [ CallArgs(rate, fv[1], fv[2]) EXCEPT
          !.vendor_basic_value = basic, !.pan4 = pan, !.other_recovery = m.other,
          !.splice_loss_amt = m.splice, !.supervisor_abs_amt = m.sup,
          !.frt_abs_amt = m.frt, !.petroller_abs_amt = m.pet,
          !.relaying_not_done_amt = relay, !.relaying_as_retention = ret ] :
        rate \in {0, 10000}, fv \in { <<0, 0>>, <<100000, 30000>> },
        basic \in { NoValue, Value(1234567), Value(60000000) },
        pan \in { NoPan, Pan(<<" ">>), Pan(<<"p">>), Pan(<<"C">>) },
        m \in ManualAmounts, relay \in {0, 200000}, ret \in BOOLEAN }

InitLedger == Start({ScenarioA, NoFile}, {ScenarioC, NoFile}, LedgerArgs, Clock)

SpecLedger == InitLedger /\ [][Next]_vars

(***************************************************************************)
(* Claims about the ledger and the notes (checked under SpecLedger)        *)
(***************************************************************************)
\* the basic value the ledger starts from
ClaimBasic ==
    IF args.vendor_basic_value.none THEN res.total_basic_sla ELSE args.vendor_basic_value.v

\* the income-tax TDS rate in percent: none without a PAN digit, 1 for P or
\* H, 2 for any other digit
ClaimPanRate ==
    IF args.pan4.none \/ Strip(args.pan4.text) = <<>> THEN 0
    ELSE IF Upper(Strip(args.pan4.text)) \in { <<"P">>, <<"H">> } THEN 1
    ELSE 2

\* amount (paise) is pct % of basic (paise) to the nearest rupee
ClaimPercentToRupee(amount, pct, basic) ==
    /\ amount % 100 = 0
    /\ 100 * amount - pct * basic \in -5000..5000

\* C12: the ledger is the stated pipeline: the basic value is the supplied
\* one or else the computed one; invoice total = basic + 18% GST; net
\* payable before penalty = invoice total - GST-TDS (2% of basic) -
\* income-tax TDS (basic * PAN rate, 0 without a PAN digit) - VIPA total
\* (1000 if basic > 500000 else 500, plus 18%); total deductions = SLA
\* recovery + manual penalties + relaying retention; final net payable =
\* net payable before penalty - total deductions.  GST is taken to the
\* paisa and the two TDS amounts to the rupee.
C12_LedgerPipeline ==
    Done =>
        LET l == res.ledger
            gst == l.total_invoice_vendor - ClaimBasic
            vipa == IF ClaimBasic > 50000000 THEN 118000 ELSE 59000
            relaying_penalty == IF args.relaying_as_retention THEN 0 ELSE args.relaying_not_done_amt
            relaying_retention == IF args.relaying_as_retention THEN args.relaying_not_done_amt ELSE 0
            manual == args.splice_loss_amt + args.supervisor_abs_amt + args.frt_abs_amt
                      + args.petroller_abs_amt + relaying_penalty + args.other_recovery
        IN  /\ l.vendor_basic_used = ClaimBasic
            /\ 100 * gst - 18 * ClaimBasic \in -50..50
            /\ ClaimPercentToRupee(l.gst_tds, 2, ClaimBasic)
            /\ ClaimPercentToRupee(l.it_tds, ClaimPanRate, ClaimBasic)
            /\ l.vipa_total = vipa
            /\ l.net_before_sla = l.total_invoice_vendor - l.gst_tds - l.it_tds - vipa
            /\ l.total_deductions_accounts =
                   res.sla_recovery_after_vendor + manual + relaying_retention
            /\ l.net_payable_after_all = l.net_before_sla - l.total_deductions_accounts
            /\ written[2].Net_Payable_to_Vendor = fmt_money(l.net_payable_after_all)

\* a supplied basic value above 500000 with PAN digit P, manual penalties
\* and a relaying retention
C12_Witness ==
    /\ Done
    /\ ~args.vendor_basic_value.none /\ res.ledger.vipa_total = 118000
    /\ res.ledger.it_tds = 600000 /\ res.ledger.gst_tds = 1200000
    /\ res.ledger.relaying_retention_amt > 0 /\ args.splice_loss_amt > 0
    /\ res.sla_recovery_after_vendor > 0
    /\ res.ledger.net_payable_after_all < res.ledger.net_before_sla

ScenarioRun == annex_a = ScenarioA /\ annex_c = ScenarioC /\ args.rate_per_km = 10000

\* C13: one route R1 of 10 km at rate 100 in a 30-day month, and one
\* non-exempt fault on R1 of "5:00": the SLA charge is 1000, the fault is in
\* bucket (4,6] with penalty 500, the uptime is (720-5)/720*100 with
\* deduction 0%, the cap is 250, the MTTR net after the cap is 250 with
\* cap_applied YES, and the system SLA penalty is 250 + 0.
C13_Scenario ==
    (Done /\ ScenarioRun) =>
        /\ Len(routes) = 1 /\ routes[1].Route_ID = <<"R", "1">>
        /\ routes[1].SLA_Charges_Rs = 1000 * 10000
        /\ total_hours_month = 720
        /\ Len(FV) = 1 /\ FV[1].Route_ID_Final = <<"R", "1">> /\ ~FV[1].Is_Exempt
        /\ FV[1].Duration_Hrs = 5 * SecPerHour
        /\ FV[1].MTTR_Slab = ">4-6"
        /\ FV[1].MTTR_Penalty_Net_Rs = 500 * 100
        /\ res.avail[1].Uptime_pct_Net =
               [num |-> 100 * (720 - 5) * SecPerHour, den |-> 720 * SecPerHour]
        /\ res.avail[1].Deduction_pct_Net = 0
        /\ res.availability_penalty_net = 0
        /\ res.mttr_cap_25pct = 250 * 100
        /\ res.mttr_net_after_cap = 250 * 100
        /\ res.mttr_cap_applied = "YES"
        /\ res.system_sla_penalty_net = 250 * 100 + 0

\* the scenario has run to its end
C13_Witness == Done /\ ScenarioRun /\ res.mttr_net = 500 * 100 /\ Len(written) = 3

(***************************************************************************)
(* Two calls of process_sla, one after the other, on the same datasets.    *)
(***************************************************************************)
\* the dates the calls can be made on
TwiceClock == { [year |-> 2027, month |-> 2], [year |-> 2027, month |-> 3] }

\* process_sla is called once more when the first call has returned: the
\* date may have moved on, relaying_as_retention may be switched, the other
\* arguments and the two datasets are the same
process_sla_again ==
    /\ pc = "done"
    /\ ~first.ran
    /\ first' = [ ran |-> TRUE, now |-> now, args |-> args, res |-> res, written |-> written ]
    /\ now' \in TwiceClock
    /\ args' \in { args, [args EXCEPT !.relaying_as_retention = ~@] }
    /\ pc' = "readA"
    /\ error' = NoError
    /\ reads' = <<>>
    /\ routes' = <<>>
    /\ total_hours_month' = 0
    /\ res' = NotComputed
    /\ written' = <<>>
    /\ UNCHANGED <<annex_a, annex_c, ui, harness>>

NextTwice ==
    \/ Next
    \/ process_sla_again

\* the Month cells of the first row: a Timestamp, a blank, and texts
MonthCells ==
    { Timestamp(2026, 11), NoMonth,
      MonthText(<<"N", "o", "v", "-", "2", "0", "2", "6">>), MonthText(<<" ", "2", "0", "2", "6", "-", "4", "-", "1", " ", "0", "0", ":", "0", "0">>), MonthText(<<"S", "e", "p", "t", "e", "m", "b", "e", "r", " ", "2", "0", "2", "6">>),
      MonthText(<<"N", "o", "v", "e", "m", "b", "e", "r">>), MonthText(<<"1", "1", "/", "2", "0", "2", "6">>), MonthText(<<" ", " ">>),
      MonthText(<<"2", "0", "2", "6", "-", "1", "3", "-", "0", "1">>) }

\* dataset A: no row; route R1 with each of the Month cells; R1 with a blank
\* Month followed by R2 with a Timestamp
TwiceFilesA ==
    { [ exists |-> TRUE, columns |-> HeaderA, rows |-> r ] :
        r \in { <<>> }
              \cup { << [ScenarioA.rows[1] EXCEPT !.Month = m] >> : m \in MonthCells }
              \cup { << [ScenarioA.rows[1] EXCEPT !.Month = NoMonth],
                        [ Route_ID |-> Cell(<<"R", "2">>), Route_Name |-> Cell(<<"C", "-", "D">>),
                          RKM |-> Metres(10030), Month |-> Timestamp(2026, 4) ] >> } }

\* dataset C: the fault of "5:00", or one of "7:12" (1% of a 30-day month)
TwiceFilesC ==
    { ScenarioC,
      [ScenarioC EXCEPT !.rows = << [ScenarioC.rows[1] EXCEPT
                                        !.Duration = Cell(<<"7", ":", "1", "2">>)] >>] }

TwiceArgs ==
    { a \in LedgerArgs :
        a.vendor_basic_value.none /\ a.pan4.none /\ a.field_unit_penalty = 0 }

InitTwice == Start(TwiceFilesA \cup {NoFile}, TwiceFilesC \cup {NoFile}, TwiceArgs, TwiceClock)

SpecTwice == InitTwice /\ [][NextTwice]_vars

(***************************************************************************)
(* Claims about two calls (checked under SpecTwice)                        *)
(***************************************************************************)
SecondDone == Done /\ first.ran
FirstMonthParses ==
    /\ Len(annex_a.rows) > 0
    /\ ~parse_month_year_from_value(annex_a.rows[1].Month).none

\* C14: two calls on the same datasets with the same arguments produce the
\* same figures (every penalty, cap, ledger and net-payable figure, in the
\* results and in the artifacts), unless the first row's Month of dataset A
\* cannot be parsed and the date differs between the calls.
C14_Deterministic ==
    (SecondDone /\ first.args = args /\ (FirstMonthParses \/ first.now = now)) =>
        /\ res = first.res
        /\ written = first.written

\* the Month is a text that parses, the second call is made in another
\* month, and both calls deduct for availability alike
C14_Witness ==
    /\ SecondDone /\ first.args = args /\ first.now # now
    /\ FirstMonthParses /\ "text" \in DOMAIN annex_a.rows[1].Month
    /\ res = first.res /\ written = first.written
    /\ res.mttr_net > 0 /\ res.ledger.net_payable_after_all # 0

(***************************************************************************)
(* Claims about unresolved routes (checked under Spec)                     *)
(***************************************************************************)
\* the valid faults that match no registry route by id or by name
Unresolved ==
    { i \in FVI : /\ CleanedId(FV[i].row) \notin RegistryIds
                  /\ RegistryRoutesNamed(NormalizedName(FV[i].row)) = {} }

\* every valid fault is counted, and its table penalty summed, in the slab
\* summary and the MTTR totals
InMttrAggregates ==
    /\ res.total_faults_count = Len(FV)
    /\ res.mttr_gross = SumF([i \in FVI |-> TablePenalty(FV[i])], FVI)
    /\ res.mttr_net = UncappedNet

\* the per-route availability table has a row for the fault's final id
InAvailability(i) ==
    \E k \in 1..Len(res.avail) :
        /\ res.avail[k].Route_ID = FV[i].Route_ID_Final
        /\ res.avail[k].Downtime_Hrs_Total = ClaimDowntime(FV[i].Route_ID_Final, FALSE)

\* the notes' missing-routes remark lists the fault's raw id and name
InMissingReport(i) ==
    \E k \in 1..Len(res.missing_group) :
        /\ res.missing_group[k].Route_ID_in_C = FV[i].Route_ID_raw
        /\ res.missing_group[k].Route_Name_in_C = FV[i].Route_Name_raw

\* C15: a valid fault that matches no registry route by id or by normalized
\* name keeps its raw id, is counted in the slab summary and the MTTR
\* totals, has its downtime under that id in the per-route availability
\* aggregate, and appears in the missing-routes report.
C15_UnresolvedKeptInAllAggregates ==
    Done =>
        \A i \in Unresolved :
            /\ FV[i].Route_ID_Final = CleanedId(FV[i].row)
            /\ InMttrAggregates
            /\ InAvailability(i)
            /\ InMissingReport(i)

(***************************************************************************)
(* One fault whose exemption cell ranges over texts.                       *)
(***************************************************************************)
MaxFlagLen == 3
FlagChars == {"y", "E", "s", "N", "o", "1", " "}

\* the exemption cells: blank, every text of up to MaxFlagLen of the
\* characters above, and words seen in such columns
ExemptCells ==
    { NaNCell }
    \cup { Cell(t) : t \in SeqsUpTo(FlagChars, MaxFlagLen) }
    \cup { Cell(t) : t \in { <<"N", "o">>, <<"F", "A", "L", "S", "E">>, <<"f", "a", "l", "s", "e", " ">>, <<"0">>, <<"T", "r", "u", "e">>, <<" ", "y", "e", "s">>, <<"Y", "E", "S", ".">>,
                             <<"Y", "e", "s", " ", "-", " ", "f", "o", "r", "c", "e", " ", "m", "a", "j", "e", "u", "r", "e">>, <<"e", "x", "e", "m", "p", "t", "e", "d">>, <<"N", "o", "t", " ", "E", "x", "e", "m", "p", "t">>, <<"E", "X", "E", "M", "P", "T">>,
                             <<"e", "x", "e", "m", " ", "p", "t">>, <<"1", ".", "0">>, <<"N", "A">>, <<"o", "k">>, <<"n", "i", "l">>, <<"nbsp", "Y", "nbsp">> } }

ExemptFilesC ==
    { [ScenarioC EXCEPT !.rows = << [ScenarioC.rows[1] EXCEPT !.Exempt = e] >>] :
        e \in ExemptCells }
    \cup { [ScenarioC EXCEPT !.columns = HeaderCNoExempt] }

InitExempt ==
    Start({ScenarioA, NoFile}, ExemptFilesC \cup {NoFile},
          { CallArgs(0, 0, 0), CallArgs(10000, 0, 0) }, Clock)

SpecExempt == InitExempt /\ [][Next]_vars

(***************************************************************************)
(* Claims about the exemption flag (checked under SpecExempt)              *)
(***************************************************************************)
\* the exemption cell of the fault, without the blanks at its ends and in
\* capitals
FlagCell == annex_c.rows[1].Exempt
FlagText == Upper(Strip(FlagCell.text))
HasExemptColumn == annex_c.columns = HeaderC

ClaimExempt ==
    IF FlagCell.nan \/ FlagText = <<>> THEN FALSE
    ELSE IF FlagText \in { <<"N", "O">>, <<"N">>, <<"0">>, <<"F", "A", "L", "S", "E">> } THEN FALSE
    ELSE IF FlagText \in { <<"Y", "E", "S">>, <<"Y">>, <<"1">>, <<"T", "R", "U", "E">> } THEN TRUE
    ELSE \E i \in 1..Len(FlagText) :
            \/ /\ i + 2 <= Len(FlagText)
               /\ SubSeq(FlagText, i, i + 2) = <<"Y", "E", "S">>
            \/ /\ i + 5 <= Len(FlagText)
               /\ SubSeq(FlagText, i, i + 5) = <<"E", "X", "E", "M", "P", "T">>

\* C16: the exemption flag of a fault is read from the trimmed text without
\* regard to case: false for a blank or absent cell; false for exactly NO,
\* N, 0 or FALSE; true for exactly YES, Y, 1 or TRUE; otherwise true when
\* the text contains YES or EXEMPT; otherwise false.
C16_ExemptFlagTable ==
    (Done /\ HasExemptColumn) =>
        /\ Len(FV) = 1
        /\ FV[1].Is_Exempt = ClaimExempt
        /\ FV[1].MTTR_Penalty_Net_Rs = (IF ClaimExempt THEN 0 ELSE TablePenalty(FV[1]))

\* a free text that contains EXEMPT and is none of the eight words, read
\* as exempt
C16_Witness ==
    /\ Done /\ HasExemptColumn
    /\ FlagText \notin { <<"Y", "E", "S">>, <<"Y">>, <<"1">>, <<"T", "R", "U", "E">> }
    /\ Contains(FlagText, <<"E", "X", "E", "M", "P", "T">>) /\ ~Contains(FlagText, <<"Y", "E", "S">>)
    /\ FlagText # Strip(FlagCell.text)
    /\ FV[1].Is_Exempt
    /\ res.mttr_exempt > 0

(***************************************************************************)
(* Claims about the relaying charge (checked under SpecTwice)              *)
(***************************************************************************)
\* what fmt_money printed, in paise
Amount(m) == (IF m.neg THEN -1 ELSE 1) * (100 * m.rupees + m.paise)

\* the second call differs from the first in relaying_as_retention alone
Switched ==
    /\ SecondDone
    /\ first.args = [args EXCEPT !.relaying_as_retention = ~@]
    /\ (FirstMonthParses \/ first.now = now)

\* the clause-14.1 penalty total of the call that took the charge as a
\* penalty, and of the call that took it as a retention
PenaltyTotalAsPenalty ==
    Amount((IF args.relaying_as_retention THEN first.written[3] ELSE written[3]).Total_Penalty_1_to_6)
PenaltyTotalAsRetention ==
    Amount((IF args.relaying_as_retention THEN written[3] ELSE first.written[3]).Total_Penalty_1_to_6)

\* C17: the relaying amount is in exactly one of the penalty bucket and the
\* retention bucket, the other being 0; switching relaying_as_retention
\* leaves the accounts total deductions, the final net payable and the
\* clause note's 'Total Deduction (Penalty + Retention if any)' unchanged,
\* and the clause-14.1 penalty total drops by exactly the relaying amount.
C17_RelayingDisplayOnly ==
    /\ Done =>
          /\ res.ledger.relaying_penalty_amt =
                (IF args.relaying_as_retention THEN 0 ELSE args.relaying_not_done_amt)
          /\ res.ledger.relaying_retention_amt =
                (IF args.relaying_as_retention THEN args.relaying_not_done_amt ELSE 0)
    /\ Switched =>
          /\ res.ledger.total_deductions_accounts = first.res.ledger.total_deductions_accounts
          /\ res.ledger.net_payable_after_all = first.res.ledger.net_payable_after_all
          /\ written[2].Total_Deductions = first.written[2].Total_Deductions
          /\ written[2].Net_Payable_to_Vendor = first.written[2].Net_Payable_to_Vendor
          /\ written[3].Total_Deduction = first.written[3].Total_Deduction
          /\ PenaltyTotalAsPenalty - PenaltyTotalAsRetention = args.relaying_not_done_amt

\* a relaying charge with other manual amounts, first a penalty and then a
\* retention: the penalty total differs, the deductions do not
C17_Witness ==
    /\ Switched
    /\ args.relaying_as_retention /\ args.relaying_not_done_amt > 0
    /\ args.other_recovery > 0 /\ res.mttr_net_after_cap > 0
    /\ res.ledger.relaying_retention_amt > 0 /\ first.res.ledger.relaying_penalty_amt > 0
    /\ written[3].Total_Penalty_1_to_6 # first.written[3].Total_Penalty_1_to_6
    /\ written[3].Total_Deduction = first.written[3].Total_Deduction
    /\ written[2].Net_Payable_to_Vendor = first.written[2].Net_Payable_to_Vendor

(***************************************************************************)
(* Claims about the clause note's totals (checked under SpecLedger)        *)
(***************************************************************************)
\* the clause note's items 1 to 6 as printed, summed
ItemsOneToSix ==
    Amount(written[3].item1_splice_loss) + Amount(written[3].item2_mttr)
    + Amount(written[3].item3_availability) + Amount(written[3].item4_supervisor)
    + Amount(written[3].item5_frt) + Amount(written[3].item6_petroller)

\* C18: the figure the clause note prints as 'Total Penalty (1+2+3+4+5+6)'
\* is the sum of its items 1 to 6, whatever the relaying amount (item 7)
\* and the other recovery.
C18_TotalPenaltyIsItemsOneToSix ==
    Done => Amount(written[3].Total_Penalty_1_to_6) = ItemsOneToSix

(***************************************************************************)
(* Claims about the two missing-route reports (checked under Spec)         *)
(***************************************************************************)
\* the lines of the accounts note's remark after its heading
Remark == written[2].Route_mapping_remarks
RemarkIsNil == Remark = <<"Routes in Format-C but not found in Format-A: NIL">>
Listed(i) ==
    \E k \in 2..Len(Remark) :
        /\ Remark[k].Route_ID_in_C = FV[i].Route_ID_raw
        /\ Remark[k].Route_Name_in_C = FV[i].Route_Name_raw

\* C19: a valid fault is listed in the notes' remark 'Routes in Format-C
\* but not found in Format-A' (its resolved id is no registry id and its
\* normalized name no registry name) if and only if its 'Route Missing in
\* A' flag in the fault report is YES (its resolved id is no registry id);
\* the remark reads NIL exactly when no valid fault has the flag YES.
C19_MissingReportsAgree ==
    Done =>
        /\ \A i \in FVI :
              /\ Listed(i) <=> MissingFlag(i) = "YES"
              /\ Listed(i) <=> (/\ FV[i].Route_ID_Final \notin RegistryIds
                                /\ RegistryRoutesNamed(NormalizedName(FV[i].row)) = {})
              /\ MissingFlag(i) = "YES" <=> FV[i].Route_ID_Final \notin RegistryIds
        /\ RemarkIsNil <=> (\A i \in FVI : MissingFlag(i) = "NO")

\* a fault whose id is a registry id and whose name is no route's, flagged
\* NO and not listed, beside a fault that is flagged YES and listed
C19_Witness ==
    /\ Done
    /\ \E i, j \in FVI :
          /\ FV[i].Route_ID_Final \in RegistryIds
          /\ RegistryRoutesNamed(NormalizedName(FV[i].row)) = {}
          /\ MissingFlag(i) = "NO" /\ ~Listed(i)
          /\ MissingFlag(j) = "YES" /\ Listed(j)
    /\ ~RemarkIsNil

(***************************************************************************)
(* Claims about the order of one call (checked under SpecSchema)           *)
(***************************************************************************)
\* a header holding both "fault" and "duration" in any case, or a 14th column
ClaimHasDurationColumn ==
    \/ \E i \in 1..Len(annex_c.columns) :
          /\ Contains(Lower(annex_c.columns[i]), <<"f","a","u","l","t">>)
          /\ Contains(Lower(annex_c.columns[i]), <<"d","u","r","a","t","i","o","n">>)
    \/ Len(annex_c.columns) >= 14

\* the three checks all passed
ChecksPass ==
    /\ ClaimMissing(ClaimRequiredA, annex_a) = {}
    /\ ClaimMissing(ClaimRequiredC, annex_c) = {}
    /\ ClaimHasDurationColumn

\* the kinds of the artifacts written so far, in the order of their writing
WrittenKinds == [i \in 1..Len(written) |-> written[i].kind]

\* what holds at every moment of a call
OrderOfOneRun ==
    /\ reads \in { <<>>, <<"A">>, <<"A", "C">> }
    /\ HasRead("C") => ClaimMissing(ClaimRequiredA, annex_a) = {}
    /\ res.computed => (reads = <<"A", "C">> /\ ChecksPass)
    /\ WrittenKinds \in { <<>>, <<"xlsx">>, <<"xlsx", "accounts_note">>,
                          <<"xlsx", "accounts_note", "clause_note">> }
    /\ written # <<>> => res.computed
    /\ (HasRead("A") /\ ClaimMissing(ClaimRequiredA, annex_a) # {}) =>
          (pc = "failed" /\ reads = <<"A">>)
    /\ (HasRead("C") /\ ~ChecksPass) => pc = "failed"
    /\ pc = "failed" => (written = <<>> /\ ~res.computed)
    /\ Done => (ChecksPass /\ Len(written) = 3)

\* an aborted call takes no further step
NothingRetried ==
    pc = "failed" => (pc' = "failed" /\ reads' = reads /\ written' = written /\ res' = res)

\* C20: one call reads dataset A, checks A's columns, reads dataset C,
\* checks C's columns and locates the duration column, computes, and only
\* then writes the workbook, the accounts note and the clause note in that
\* order; a call that aborts at a check (a column missing in A or in C, or
\* no header with both 'fault' and 'duration' among fewer than 14 columns)
\* has written no artifact, and nothing is retried.
C20_FailFastOrder == [](OrderOfOneRun) /\ [][NothingRetried]_vars

\* a call aborted for want of a duration column after both datasets were
\* read and their required columns found: nothing computed or written
C20_Witness ==
    /\ pc = "failed"
    /\ error.message = "Fault Duration column not found."
    /\ reads = <<"A", "C">>
    /\ ClaimMissing(ClaimRequiredC, annex_c) = {} /\ ~ClaimHasDurationColumn
    /\ written = <<>> /\ ~res.computed

=============================================================================
